---- MODULE Spec2Model ----
(***************************************************************************)
(* A model of gpt-os, the Apple Health export converter: the boundary      *)
(* scanner and chunk parser (src/src/xml_utils.rs and                      *)
(* src/src/apple_health/extractor.rs), the grouping stage                  *)
(* (src/src/core.rs, src/src/processor.rs), the per-group sort and rows   *)
(* of the sinks (src/src/sinks/csv_zip.rs, src/src/sinks/csv_7z.rs), the   *)
(* load phase (the sinks' load_sync; write_output_files of main.rs) and    *)
(* the error paths of a whole run (core.rs, main.rs, parser.rs).           *)
(*                                                                         *)
(* Offsets into byte buffers are 0-based as in the source; At(d, i) reads  *)
(* byte i.  Option<usize>::None is NoneIdx.  Bytes are one-character       *)
(* strings over the alphabet the scanners distinguish: "<", ">", "/",      *)
(* whitespace " " and the alphabetic bytes "R" and "b".  An element name   *)
(* is one alphabetic byte: "R" stands for a target element (Record,        *)
(* Workout, ActivitySummary), "b" for any other element.                   *)
(***************************************************************************)
EXTENDS Integers, Sequences, FiniteSets, TLC

VARIABLES
    data,              \* the input bytes (content / mmap / file)
    chunk_size,        \* the target chunk size (CHUNK_SIZE of the build)
    called,            \* which operation has been applied to the input
    boundaries,        \* result of xml_utils::find_chunk_boundaries
    ah_boundaries,     \* result of AppleHealthExtractor::find_chunk_boundaries
    stream_boundaries, \* result of find_streaming_chunk_boundaries
    sent,              \* records sent on the channel by process_chunks
    processed,         \* the count process_chunks returns
    g_impl,            \* grouping stage: "transform" (core.rs) or "processor"
    g_records,         \* the records the extractor sends, in order
    g_next,            \* index of the next record to send
    g_open,            \* the channel still has a sender
    g_chan,            \* records queued in the channel
    g_workers,         \* num_workers
    g_pc,              \* position of each worker thread
    g_holding,         \* the record a worker has received and not yet inserted
    g_lock,            \* holder of the receiver mutex (processor.rs), 0 if free
    g_map,             \* grouped_records / global_map
    g_got,             \* ids of the records each worker received
    g_returned,        \* the stage has joined its workers and returned the map
    g_handoff,         \* the map: "none", "map" (returned), "panic" or "load"
    s_sink,            \* the sink serializing the group: "zip" or "7z"
    s_recs,            \* the group's records, in the order they were stored
    s_rows,            \* the group's records in the order they are written
    s_header,          \* the header row of the serialized table
    s_cells,           \* the data rows of the serialized table, cell by cell
    s_done,            \* the group has been serialized
    l_path,            \* load path: "zip", "7z" (the sinks) or "main" (main.rs)
    l_map,             \* grouped_records: group key -> number of records
    l_threads,         \* rayon::current_num_threads()
    l_pc,              \* position of the thread that runs the load
    l_entries,         \* the entries filter_entries returned
    l_taken,           \* indices of the entries a rayon worker has taken
    l_hold,            \* per rayon worker: the entry it serialized and must send
    l_chan,            \* the merge channel
    l_tx,              \* the merge channel still has its sender
    l_merger,          \* the merge / writer thread: "off", "running", "finished"
    l_out,             \* the entries of the output container, in append order
    l_files,           \* main.rs: the files of the temporary directory
    l_visited,         \* main.rs: the keys the write loop has visited
    l_done,            \* the load has returned
    l_fault,           \* what fails: "none", "serialize", "create", "write", "finish"
    l_werr,            \* a closure of try_for_each has returned Err
    l_result,          \* what load returned: "none", "Ok", "Err"
    l_finished,        \* the container has been finished (zip.finish / writer.finish)
    l_users,           \* the threads that have used the container handle
    r_impl,            \* the pipeline: "engine" (core.rs) or "main" (main.rs)
    r_wrap,            \* the input path: "plain" or "zip" (by its extension)
    r_input,           \* "ok", "open_fails", "no_member" or "read_fails"
    r_elems,           \* the target elements of the input: can each be decoded
    r_pc,              \* position of the run
    r_pos,             \* the element the parser is at
    r_emitted,         \* indices of the elements sent as records
    r_parse,           \* result of the parser thread: "none", "Ok", "Err"
    r_load_started,    \* the sink / output phase has been entered
    r_container,       \* the output container has been created
    r_result,          \* what the run returned to its caller: "none", "Ok", "Err"
    j_impl,            \* the grouping stage: "transform" (core.rs) or "main"
    j_state,           \* per worker thread: "running", "locked", "done" or "panicked"
    j_closed,          \* the channel is empty and every sender has been dropped
    j_poisoned,        \* the mutex of the receiver is poisoned (processor.rs)
    j_next,            \* the handle the driver joins next
    j_stage,           \* what the grouping stage returned: "none", "Ok", "Err", "panic"
    j_run,             \* what the top-level driver returned: "none", "Ok", "Err", "panic"
    j_parser,          \* the producer thread: "running", or what it returned
    p_fn,              \* "process_stream" or "process_chunks" (xml_utils.rs)
    p_data,            \* the bytes of the source
    p_cs,              \* CHUNK_SIZE
    p_faulty,          \* the source may return a read error
    p_off,             \* the bytes read so far
    p_buffer,          \* process_stream: the bytes read and not yet drained
    p_tasks,           \* the chunk tasks: [chunk, runs, late]
    p_sent,            \* the records sent on the channel
    p_count,           \* process_chunks: the counter processed
    p_failed,          \* a read has returned Err
    p_pc,              \* position of the calling thread
    p_result,          \* what the function returned: [tag, count]
    c_kind,            \* the producer: "parser", "chunk_task" or "send_loop"
    c_items,           \* the number of records the producer has to send
    c_cap,             \* capacity of the channel, 0 for an unbounded channel
    c_pos,             \* the records the producer has dealt with
    c_chan,            \* the number of records queued
    c_rx,              \* the receiver: "open" or "dropped"
    c_pc,              \* the producer: "running" or "done"
    c_failed,          \* the sends that returned Err
    c_got,             \* the records the consumer received
    z_reader,          \* the reader of the zip input
    z_members,         \* the members of the archive: [name, content]
    z_found,           \* index of the member the reader chose, 0 for none
    z_stream,          \* the bytes handed to the parser
    z_sent,            \* the records sent on the channel
    z_pc,              \* position of the reader
    z_result,          \* "none", "Ok" or "Err"
    x_path,            \* the input of AppleHealthExtractor::extract: "zip" or "plain"
    x_data,            \* the bytes of export.xml
    x_cs,              \* the target chunk size
    x_chunks,          \* the (start, end) of every chunk
    x_results,         \* the records of each chunk, <<>> until it is parsed
    x_order,           \* the chunks in the order the pool finished them
    x_queue,           \* the collected records that are still to be sent
    x_sent,            \* the records sent on the channel, in order
    x_rx,              \* the receiver: "open" or "dropped"
    x_pc               \* position of the extractor

scan_vars == <<data, chunk_size, called, boundaries, ah_boundaries,
               stream_boundaries, sent, processed>>

group_vars == <<g_impl, g_records, g_next, g_open, g_chan, g_workers, g_pc,
                g_holding, g_lock, g_map, g_got, g_returned, g_handoff>>

sink_vars == <<s_sink, s_recs, s_rows, s_header, s_cells, s_done>>

load_vars == <<l_path, l_map, l_threads, l_pc, l_entries, l_taken, l_hold, l_chan,
               l_tx, l_merger, l_out, l_files, l_visited, l_done, l_fault, l_werr,
               l_result, l_finished, l_users>>

run_vars == <<r_impl, r_wrap, r_input, r_elems, r_pc, r_pos, r_emitted, r_parse,
              r_load_started, r_container, r_result>>

join_vars == <<j_impl, j_state, j_closed, j_poisoned, j_next, j_stage, j_run,
               j_parser>>

stream_vars == <<p_fn, p_data, p_cs, p_faulty, p_off, p_buffer, p_tasks, p_sent,
                 p_count, p_failed, p_pc, p_result>>

cancel_vars == <<c_kind, c_items, c_cap, c_pos, c_chan, c_rx, c_pc, c_failed, c_got>>

zip_vars == <<z_reader, z_members, z_found, z_stream, z_sent, z_pc, z_result>>

extract_vars == <<x_path, x_data, x_cs, x_chunks, x_results, x_order, x_queue, x_sent,
                  x_rx, x_pc>>

vars == <<scan_vars, group_vars, sink_vars, load_vars, run_vars, join_vars, stream_vars, cancel_vars, zip_vars, extract_vars>>

\* What a step of one component leaves alone
not_scan_vars == <<group_vars, sink_vars, load_vars, run_vars, join_vars,
    stream_vars,
    cancel_vars,
    zip_vars,
    extract_vars>>
not_group_vars == <<scan_vars, sink_vars, load_vars, run_vars, join_vars,
    stream_vars,
    cancel_vars,
    zip_vars,
    extract_vars>>
not_sink_vars == <<scan_vars, group_vars, load_vars, run_vars, join_vars,
    stream_vars,
    cancel_vars,
    zip_vars,
    extract_vars>>
not_load_vars == <<scan_vars, group_vars, sink_vars, run_vars, join_vars,
    stream_vars,
    cancel_vars,
    zip_vars,
    extract_vars>>
not_run_vars == <<scan_vars, group_vars, sink_vars, load_vars, join_vars,
    stream_vars,
    cancel_vars,
    zip_vars,
    extract_vars>>
not_join_vars == <<scan_vars, group_vars, sink_vars, load_vars, run_vars,
    stream_vars,
    cancel_vars,
    zip_vars,
    extract_vars>>
not_stream_vars == <<scan_vars, group_vars, sink_vars, load_vars, run_vars, join_vars,
    cancel_vars,
    zip_vars,
    extract_vars>>
not_cancel_vars == <<scan_vars, group_vars, sink_vars, load_vars, run_vars, join_vars, stream_vars,
    zip_vars,
    extract_vars>>
not_zip_vars == <<scan_vars, group_vars, sink_vars, load_vars, run_vars, join_vars, stream_vars, cancel_vars,
    extract_vars>>
not_extract_vars == <<scan_vars, group_vars, sink_vars, load_vars, run_vars, join_vars, stream_vars, cancel_vars, zip_vars>>

----------------------------------------------------------------------------
(* Bounds of the model *)

MaxPieces == 4
MaxChunkSize == 8
MaxRecords == 3
MaxWorkers == 2
MaxGroup == 3
MaxSortKey == 2
MaxKeys == 2
MaxLoadRecords == 1
MaxThreads == 2
MaxElements == 3
ManyKeys == 5
MaxFairRecords == 2
MaxFairWorkers == 2
MaxJoinWorkers == 3
MaxStreamPieces == 3
MaxStreamChunk == 4
MaxCancelItems == 4
MaxCancelCap == 2
MaxNameLen == 3
MaxMembers == 2
MaxExtractPieces == 2
MaxExtractChunk == 4

----------------------------------------------------------------------------
(* Bytes and slices *)

NoneIdx == -1

Min(a, b) == IF a < b THEN a ELSE b

At(d, i) == d[i + 1]

\* &d[from..to]
Slice(d, from, to) == SubSeq(d, from + 1, to)

\* &d[from..]
SliceFrom(d, from) == SubSeq(d, from + 1, Len(d))

is_ascii_whitespace(b) == b = " "

is_ascii_alphabetic(b) == b \in {"R", "b"}

----------------------------------------------------------------------------
(* Boundary scanner, xml_utils.rs *)

RECURSIVE skip_whitespace(_, _)
skip_whitespace(d, idx) ==
    IF idx < Len(d) /\ is_ascii_whitespace(At(d, idx))
    THEN skip_whitespace(d, idx + 1)
    ELSE idx

is_element_start(d) ==
    IF Len(d) < 2 \/ d[1] # "<"
    THEN FALSE
    ELSE is_ascii_alphabetic(d[2])

advance_to_next_element(d, start) ==
    LET idx == skip_whitespace(d, start)
    IN  IF idx < Len(d) /\ is_element_start(SliceFrom(d, idx))
        THEN idx
        ELSE NoneIdx

\* A scanner that cuts at the candidate position itself.
find_boundary_after_bytecount(d, start) ==
    IF start < Len(d) THEN start ELSE NoneIdx

RECURSIVE find_boundary_after(_, _)
find_boundary_after(d, start) ==
    IF start < Len(d)
    THEN IF At(d, start) = ">" /\ advance_to_next_element(d, start + 1) # NoneIdx
         THEN advance_to_next_element(d, start + 1)
         ELSE find_boundary_after(d, start + 1)
    ELSE NoneIdx

Last(s) == s[Len(s)]

\* Pushes the end of the data even when it is already the last boundary.
push_final_boundary_always(bs, content_len) == Append(bs, content_len)

\* xml_utils.rs:91-93 and extractor.rs:107-109
push_final_boundary(bs, content_len) ==
    IF Last(bs) # content_len THEN Append(bs, content_len) ELSE bs

\* A candidate split point that is not moved ahead by the chunk size
target_position_not_advanced(pos, cs, content_len) == Min(pos, content_len)

\* (pos + CHUNK_SIZE).min(content_len)
target_position(pos, cs, content_len) == Min(pos + cs, content_len)

RECURSIVE find_chunk_boundaries_loop(_, _, _, _)
find_chunk_boundaries_loop(content, bs, pos, cs) ==
    IF pos < Len(content)
    THEN LET target_pos == target_position(pos, cs, Len(content))
             boundary_pos == find_boundary_after(content, target_pos)
         IN  IF boundary_pos # NoneIdx /\ boundary_pos < Len(content)
             THEN find_chunk_boundaries_loop(content, Append(bs, boundary_pos),
                                             boundary_pos, cs)
             ELSE bs
    ELSE bs

find_chunk_boundaries(content, cs) ==
    push_final_boundary(find_chunk_boundaries_loop(content, <<0>>, 0, cs),
                        Len(content))

----------------------------------------------------------------------------
(* Boundary scanner, apple_health/extractor.rs *)

TARGET_ELEMENTS == {<<"R">>}

is_target_element_start(d) ==
    \E element \in TARGET_ELEMENTS :
        LET pattern == <<"<">> \o element
        IN  /\ Len(d) >= Len(pattern) + 1
            /\ SubSeq(d, 1, Len(pattern)) = pattern
            /\ \/ is_ascii_whitespace(d[Len(pattern) + 1])
               \/ d[Len(pattern) + 1] = ">"

\* The position of the target element that follows the '>' at i, or NoneIdx.
target_after_close(d, i) ==
    LET next_pos == skip_whitespace(d, i + 1)
    IN  IF /\ next_pos < Len(d)
           /\ At(d, next_pos) = "<"
           /\ is_target_element_start(SliceFrom(d, next_pos))
        THEN next_pos
        ELSE NoneIdx

RECURSIVE ah_scan_boundary(_, _, _)
ah_scan_boundary(content, pos, boundary_pos) ==
    IF boundary_pos > pos /\ boundary_pos < Len(content)
    THEN IF /\ At(content, boundary_pos) = ">"
            /\ target_after_close(content, boundary_pos) # NoneIdx
         THEN target_after_close(content, boundary_pos)
         ELSE ah_scan_boundary(content, pos, boundary_pos + 1)
    ELSE boundary_pos

RECURSIVE ah_find_chunk_boundaries_loop(_, _, _, _)
ah_find_chunk_boundaries_loop(content, bs, pos, cs) ==
    IF pos < Len(content)
    THEN LET target_pos == target_position(pos, cs, Len(content))
             boundary_pos == ah_scan_boundary(content, pos, target_pos)
         IN  IF boundary_pos > pos /\ boundary_pos < Len(content)
             THEN ah_find_chunk_boundaries_loop(content, Append(bs, boundary_pos),
                                                boundary_pos, cs)
             ELSE bs
    ELSE bs

AppleHealthExtractor_find_chunk_boundaries(content, cs) ==
    push_final_boundary(ah_find_chunk_boundaries_loop(content, <<0>>, 0, cs),
                        Len(content))

----------------------------------------------------------------------------
(* Streaming boundary scanner, apple_health/extractor.rs *)

\* The lookahead window of the streaming scanner, 64 * 1024 bytes in the
\* program, scaled here to the model's element sizes (longer than the
\* self-closing elements and the closing tag)
BOUNDARY_BUFFER_SIZE == 6

RECURSIVE find_safe_boundary_from(_, _)
find_safe_boundary_from(buffer, i) ==
    IF i < Len(buffer)
    THEN IF At(buffer, i) = ">" /\ target_after_close(buffer, i) # NoneIdx
         THEN target_after_close(buffer, i)
         ELSE find_safe_boundary_from(buffer, i + 1)
    ELSE Len(buffer)

find_safe_boundary_in_buffer(buffer) == find_safe_boundary_from(buffer, 0)

\* A scan that searches the whole buffer, not only the bytes read
read_at_whole_buffer(file, target_pos, buf_len) ==
    Slice(file, target_pos, Min(target_pos + buf_len, Len(file)))
    \o [ i \in 1..(target_pos + buf_len - Min(target_pos + buf_len, Len(file))) |-> "b" ]

\* reader.seek(Start(target_pos)); reader.read(&mut buffer): the bytes read
read_at(file, target_pos, buf_len) ==
    Slice(file, target_pos, Min(target_pos + buf_len, Len(file)))

RECURSIVE find_streaming_loop(_, _, _, _)
find_streaming_loop(file, bs, current_pos, cs) ==
    LET file_size == Len(file)
        target_pos == Min(current_pos + cs, file_size)
        buffer == read_at(file, target_pos, BOUNDARY_BUFFER_SIZE)
        chunk_end == target_pos + find_safe_boundary_in_buffer(buffer)
    IN  IF current_pos < file_size
        THEN IF target_pos >= file_size
             THEN Append(bs, <<current_pos, file_size>>)
             ELSE IF Len(buffer) = 0
                  THEN Append(bs, <<current_pos, file_size>>)
                  ELSE find_streaming_loop(file, Append(bs, <<current_pos, chunk_end>>),
                                           chunk_end, cs)
        ELSE bs

find_streaming_chunk_boundaries(file, cs) == find_streaming_loop(file, <<>>, 0, cs)

----------------------------------------------------------------------------
(* Chunk parser, xml_utils.rs.  read_event_into is quick_xml's tokenizer   *)
(* with its default configuration (end names are checked against the open  *)
(* elements) and trim_text: a tag runs from '<' to the next '>'; an end tag *)
(* that closes no open element and a tag with no '>' are errors; the end of *)
(* the input with elements still open is Eof, not an error.                *)

RECURSIVE find_byte(_, _, _)
find_byte(d, b, from) ==
    IF from < Len(d)
    THEN IF At(d, from) = b THEN from ELSE find_byte(d, b, from + 1)
    ELSE NoneIdx

RECURSIVE tag_name(_)
tag_name(content) ==
    IF content = <<>> \/ is_ascii_whitespace(Head(content)) \/ Head(content) = "/"
    THEN <<>>
    ELSE <<Head(content)>> \o tag_name(Tail(content))

Front(s) == SubSeq(s, 1, Len(s) - 1)

\* One event: [kind, e (the tag's bytes), next (reader position), opened]
read_event_into(chunk, pos, opened) ==
    IF pos >= Len(chunk)
    THEN [kind |-> "Eof", e |-> <<>>, next |-> pos, opened |-> opened]
    ELSE IF At(chunk, pos) # "<"
    THEN LET lt == find_byte(chunk, "<", pos)
         IN  [kind |-> "Text", e |-> <<>>,
              next |-> IF lt = NoneIdx THEN Len(chunk) ELSE lt, opened |-> opened]
    ELSE LET gt == find_byte(chunk, ">", pos + 1)
             content == Slice(chunk, pos + 1, gt)
         IN  IF gt = NoneIdx
             THEN [kind |-> "Err", e |-> <<>>, next |-> pos, opened |-> opened]
             ELSE IF content # <<>> /\ Head(content) = "/"
             THEN IF opened = <<>> \/ Last(opened) # tag_name(Tail(content))
                  THEN [kind |-> "Err", e |-> <<>>, next |-> pos, opened |-> opened]
                  ELSE [kind |-> "End", e |-> Tail(content), next |-> gt + 1,
                        opened |-> Front(opened)]
             ELSE IF content # <<>> /\ Last(content) = "/"
             THEN [kind |-> "Empty", e |-> Front(content), next |-> gt + 1,
                   opened |-> opened]
             ELSE [kind |-> "Start", e |-> content, next |-> gt + 1,
                   opened |-> Append(opened, tag_name(content))]

\* The decoder callback: Some(record) as <<record>>, None as <<>>.  A record
\* is the bytes of its element; elements other than the targets yield None.
parse_fn(e) == IF tag_name(e) \in TARGET_ELEMENTS THEN <<e>> ELSE <<>>

\* A loop that fails the chunk on a tokenizer error: nothing of it is sent
RECURSIVE process_chunk_slice_loop_failing(_, _, _, _)
process_chunk_slice_loop_failing(chunk, pos, opened, results) ==
    LET ev == read_event_into(chunk, pos, opened)
    IN  IF ev.kind \in {"Start", "Empty"}
        THEN process_chunk_slice_loop_failing(chunk, ev.next, ev.opened,
                                              results \o parse_fn(ev.e))
        ELSE IF ev.kind = "Eof"
        THEN results
        ELSE IF ev.kind = "Err"
        THEN <<>>
        ELSE process_chunk_slice_loop_failing(chunk, ev.next, ev.opened, results)

RECURSIVE process_chunk_slice_loop(_, _, _, _)
process_chunk_slice_loop(chunk, pos, opened, results) ==
    LET ev == read_event_into(chunk, pos, opened)
    IN  IF ev.kind \in {"Start", "Empty"}
        THEN process_chunk_slice_loop(chunk, ev.next, ev.opened,
                                      results \o parse_fn(ev.e))
        ELSE IF ev.kind \in {"Eof", "Err"}
        THEN results
        ELSE process_chunk_slice_loop(chunk, ev.next, ev.opened, results)

process_chunk_slice(chunk) == process_chunk_slice_loop(chunk, 0, <<>>, <<>>)

\* The records of the chunks boundaries.windows(2) cuts, from window i on
RECURSIVE process_windows(_, _, _)
process_windows(d, bs, i) ==
    IF i + 1 <= Len(bs)
    THEN process_chunk_slice(Slice(d, bs[i], bs[i + 1])) \o process_windows(d, bs, i + 1)
    ELSE <<>>

windows_count(bs) == IF Len(bs) >= 2 THEN Len(bs) - 1 ELSE 0

\* AppleHealthExtractor::process_chunk: the same loop as process_chunk_slice
\* (a record per decoded target element, Eof and Err both end the loop, the
\* result is Ok(results)), on the extractor's own chunks
AppleHealthExtractor_process_chunk(chunk) == process_chunk_slice_loop(chunk, 0, <<>>, <<>>)

\* process_memory_chunks (zip input): the chunks boundaries.windows(2) cuts,
\* parsed and collected in chunk order, from window i on
RECURSIVE process_memory_chunks(_, _, _)
process_memory_chunks(content, bs, i) ==
    IF i + 1 <= Len(bs)
    THEN AppleHealthExtractor_process_chunk(Slice(content, bs[i], bs[i + 1]))
             \o process_memory_chunks(content, bs, i + 1)
    ELSE <<>>

\* process_xml_file_streaming (plain input): read_chunk_from_file(start, end)
\* for each (start, end) of the streaming scanner, parsed and collected in
\* chunk order, from chunk i on
RECURSIVE process_xml_file_streaming(_, _, _)
process_xml_file_streaming(file, chunks, i) ==
    IF i <= Len(chunks)
    THEN AppleHealthExtractor_process_chunk(Slice(file, chunks[i][1], chunks[i][2]))
             \o process_xml_file_streaming(file, chunks, i + 1)
    ELSE <<>>

\* The records extract sends for the bytes wrapped as export.xml in a zip
extract_zip(content, cs) ==
    process_memory_chunks(content, AppleHealthExtractor_find_chunk_boundaries(content, cs), 1)

\* The records extract sends for the bytes as a plain file
extract_plain(file, cs) ==
    process_xml_file_streaming(file, find_streaming_chunk_boundaries(file, cs), 1)

----------------------------------------------------------------------------
(* Inputs: concatenations of tags and whitespace *)

Pieces == { <<"<", "R", ">">>,
            <<"<", "R", " ", "b", "b", "b", "b", "b", ">">>,
            <<"<", "R", "/", ">">>,
            <<"<", "/", "R", ">">>,
            <<"<", "b", "/", ">">>,
            <<" ">> }

RECURSIVE Flatten(_)
Flatten(ps) == IF ps = <<>> THEN <<>> ELSE Head(ps) \o Flatten(Tail(ps))

Inputs == { Flatten(ps) : ps \in UNION { [1..n -> Pieces] : n \in 0..MaxPieces } }

\* The grouping stage is not running
GroupIdle ==
    /\ g_impl = "off"
    /\ g_records = <<>>
    /\ g_next = 1
    /\ g_open = FALSE
    /\ g_chan = <<>>
    /\ g_workers = 0
    /\ g_pc = <<>>
    /\ g_holding = <<>>
    /\ g_lock = 0
    /\ g_map = <<>>
    /\ g_got = <<>>
    /\ g_returned = FALSE
    /\ g_handoff = "none"

\* No group is being serialized
SinkIdle ==
    /\ s_sink = "off"
    /\ s_recs = <<>>
    /\ s_rows = <<>>
    /\ s_header = <<>>
    /\ s_cells = <<>>
    /\ s_done = FALSE

\* No load is running
LoadIdle ==
    /\ l_path = "off"
    /\ l_map = <<>>
    /\ l_threads = 1
    /\ l_pc = "off"
    /\ l_entries = <<>>
    /\ l_taken = {}
    /\ l_hold = <<>>
    /\ l_chan = <<>>
    /\ l_tx = FALSE
    /\ l_merger = "off"
    /\ l_out = <<>>
    /\ l_files = <<>>
    /\ l_visited = {}
    /\ l_done = FALSE
    /\ l_fault = "off"
    /\ l_werr = FALSE
    /\ l_result = "none"
    /\ l_finished = FALSE
    /\ l_users = {}

RunIdle ==
    /\ r_impl = "off"
    /\ r_wrap = "off"
    /\ r_input = "off"
    /\ r_elems = <<>>
    /\ r_pc = "off"
    /\ r_pos = 1
    /\ r_emitted = <<>>
    /\ r_parse = "none"
    /\ r_load_started = FALSE
    /\ r_container = FALSE
    /\ r_result = "none"

JoinIdle ==
    /\ j_impl = "off"
    /\ j_state = <<>>
    /\ j_closed = FALSE
    /\ j_poisoned = FALSE
    /\ j_next = 1
    /\ j_stage = "none"
    /\ j_run = "none"
    /\ j_parser = "off"

StreamIdle ==
    /\ p_fn = "off"
    /\ p_data = <<>>
    /\ p_cs = 1
    /\ p_faulty = FALSE
    /\ p_off = 0
    /\ p_buffer = <<>>
    /\ p_tasks = <<>>
    /\ p_sent = <<>>
    /\ p_count = 0
    /\ p_failed = FALSE
    /\ p_pc = "off"
    /\ p_result = [tag |-> "none", count |-> 0]

CancelIdle ==
    /\ c_kind = "off"
    /\ c_items = 0
    /\ c_cap = 0
    /\ c_pos = 0
    /\ c_chan = 0
    /\ c_rx = "off"
    /\ c_pc = "off"
    /\ c_failed = 0
    /\ c_got = 0

ZipIdle ==
    /\ z_reader = "off"
    /\ z_members = <<>>
    /\ z_found = 0
    /\ z_stream = <<>>
    /\ z_sent = <<>>
    /\ z_pc = "off"
    /\ z_result = "none"

ExtractIdle ==
    /\ x_path = "off"
    /\ x_data = <<>>
    /\ x_cs = 0
    /\ x_chunks = <<>>
    /\ x_results = <<>>
    /\ x_order = <<>>
    /\ x_queue = <<>>
    /\ x_sent = <<>>
    /\ x_rx = "open"
    /\ x_pc = "off"

InitScan ==
    /\ ExtractIdle
    /\ ZipIdle
    /\ CancelIdle
    /\ StreamIdle
    /\ JoinIdle
    /\ GroupIdle
    /\ SinkIdle
    /\ LoadIdle
    /\ RunIdle
    /\ data \in Inputs
    /\ chunk_size \in 1..MaxChunkSize
    /\ called = "none"
    /\ boundaries = <<>>
    /\ ah_boundaries = <<>>
    /\ stream_boundaries = <<>>
    /\ sent = <<>>
    /\ processed = 0

\* xml_utils::find_chunk_boundaries(content)
FindChunkBoundaries ==
    /\ called = "none"
    /\ called' = "find_chunk_boundaries"
    /\ boundaries' = find_chunk_boundaries(data, chunk_size)
    /\ UNCHANGED <<data, chunk_size, ah_boundaries, stream_boundaries, sent, processed>>
    /\ UNCHANGED not_scan_vars

\* AppleHealthExtractor::find_chunk_boundaries(content)
AHFindChunkBoundaries ==
    /\ called = "none"
    /\ called' = "ah_find_chunk_boundaries"
    /\ ah_boundaries' = AppleHealthExtractor_find_chunk_boundaries(data, chunk_size)
    /\ UNCHANGED <<data, chunk_size, boundaries, stream_boundaries, sent, processed>>
    /\ UNCHANGED not_scan_vars

\* AppleHealthExtractor::find_streaming_chunk_boundaries(reader)
FindStreamingChunkBoundaries ==
    /\ called = "none"
    /\ called' = "find_streaming_chunk_boundaries"
    /\ stream_boundaries' = find_streaming_chunk_boundaries(data, chunk_size)
    /\ UNCHANGED <<data, chunk_size, boundaries, ah_boundaries, sent, processed>>
    /\ UNCHANGED not_scan_vars

\* xml_utils::process_chunks(data, sender, parse_fn): every chunk is parsed
\* and its records are sent; the order of the sends is not modelled.
ProcessChunks ==
    /\ called = "none"
    /\ called' = "process_chunks"
    /\ boundaries' = find_chunk_boundaries(data, chunk_size)
    /\ sent' = process_windows(data, boundaries', 1)
    /\ processed' = windows_count(boundaries')
    /\ UNCHANGED <<data, chunk_size, ah_boundaries, stream_boundaries>>
    /\ UNCHANGED not_scan_vars

\* AppleHealthExtractor::extract on a path with extension "zip":
\* extract_xml_from_zip, then process_memory_chunks
ExtractZip ==
    /\ called = "none"
    /\ called' = "extract_zip"
    /\ ah_boundaries' = AppleHealthExtractor_find_chunk_boundaries(data, chunk_size)
    /\ sent' = process_memory_chunks(data, ah_boundaries', 1)
    /\ processed' = windows_count(ah_boundaries')
    /\ UNCHANGED <<data, chunk_size, boundaries, stream_boundaries>>
    /\ UNCHANGED not_scan_vars

\* AppleHealthExtractor::extract on any other path: process_xml_file_streaming
ExtractPlain ==
    /\ called = "none"
    /\ called' = "extract_plain"
    /\ stream_boundaries' = find_streaming_chunk_boundaries(data, chunk_size)
    /\ sent' = process_xml_file_streaming(data, stream_boundaries', 1)
    /\ processed' = Len(stream_boundaries')
    /\ UNCHANGED <<data, chunk_size, boundaries, ah_boundaries>>
    /\ UNCHANGED not_scan_vars

NextScan ==
    \/ FindChunkBoundaries
    \/ AHFindChunkBoundaries
    \/ FindStreamingChunkBoundaries
    \/ ProcessChunks
    \/ ExtractZip
    \/ ExtractPlain

SpecScan == InitScan /\ [][NextScan]_vars

----------------------------------------------------------------------------
(* Grouping stage: transformer::transform (core.rs) and                    *)
(* Processor::process_records_from_channel with its join loop (processor.rs, *)
(* main.rs).  The map is a DashMap: entry(key) takes the write lock of the  *)
(* key's shard and the push happens while the entry guard is alive, so the  *)
(* lookup, the creation of a missing entry and the push are one step.       *)

NoType == "-"

\* The elements the extractor decodes, by element name and type attribute
RecordKinds == { [element |-> "Record", type |-> "Steps"],
                 [element |-> "Record", type |-> NoType],
                 [element |-> "Workout", type |-> NoType] }

\* GenericRecord::grouping_key
grouping_key(r) ==
    IF r.element = "Record" /\ r.type # NoType THEN r.type ELSE r.element

\* RecordRow::record_type, the key Processor groups by (processor.rs calls
\* it; its body is in no source file): the grouping rule of the record, a
\* Record by its type attribute and anything else by its element name
record_type(r) ==
    IF r.element = "Record" /\ r.type # NoType THEN r.type ELSE r.element

NoRecord == [id |-> 0, element |-> "-", type |-> NoType]

\* An insert that replaces the group instead of appending to it
map_insert_replacing(m, k, r) ==
    [ x \in DOMAIN m \cup {k} |-> IF x = k THEN <<r>> ELSE m[x] ]

\* An entry created for a missing key that never receives its first record
map_insert_skipping_first(m, k, r) ==
    [ x \in DOMAIN m \cup {k} |->
          IF x = k THEN (IF k \in DOMAIN m THEN Append(m[k], r) ELSE <<>>) ELSE m[x] ]

\* grouped_records.entry(k).or_default().push(r)
map_insert(m, k, r) ==
    [ x \in DOMAIN m \cup {k} |->
          IF x = k THEN (IF k \in DOMAIN m THEN Append(m[k], r) ELSE <<r>>) ELSE m[x] ]

\* A stage that always has a worker
spawned_workers_at_least_one(num_workers) == IF num_workers = 0 THEN 1 ELSE num_workers

\* for i in 0..num_workers { handles.push(thread::spawn(..)) }
spawned_workers(num_workers) == num_workers

Workers == 1..spawned_workers(g_workers)

\* A stage that returns the map without waiting for its workers
handles_joined_none(pc) == TRUE

\* for handle in handles { handle.join() }: every worker thread has ended
handles_joined(pc) == \A w \in DOMAIN pc : pc[w] = "done"

\* Arc::strong_count of the shared map: the stage's own reference and the
\* clone moved into the closure of every thread that has not ended
strong_count(pc) == 1 + Cardinality({ w \in DOMAIN pc : pc[w] # "done" })

\* Arc::try_unwrap(grouped_records).unwrap(): Ok for the only reference
try_unwrap(count) == IF count = 1 THEN "map" ELSE "panic"

\* No input is being scanned
ScanIdle ==
    /\ data = <<>>
    /\ chunk_size = 1
    /\ called = "off"
    /\ boundaries = <<>>
    /\ ah_boundaries = <<>>
    /\ stream_boundaries = <<>>
    /\ sent = <<>>
    /\ processed = 0

InitGroup ==
    /\ ExtractIdle
    /\ ZipIdle
    /\ CancelIdle
    /\ StreamIdle
    /\ JoinIdle
    /\ ScanIdle
    /\ SinkIdle
    /\ LoadIdle
    /\ RunIdle
    /\ g_impl \in {"transform", "processor"}
    /\ \E n \in 0..MaxRecords : \E kinds \in [1..n -> RecordKinds] :
           g_records = [ i \in 1..n |->
                           [id |-> i, element |-> kinds[i].element, type |-> kinds[i].type] ]
    /\ g_next = 1
    /\ g_open = TRUE
    /\ g_chan = <<>>
    /\ g_workers \in 0..MaxWorkers
    /\ g_pc = [ w \in Workers |-> "recv" ]
    /\ g_holding = [ w \in Workers |-> NoRecord ]
    /\ g_lock = 0
    /\ g_map = <<>>
    /\ g_got = [ w \in Workers |-> <<>> ]
    /\ g_returned = FALSE
    /\ g_handoff = "none"

\* A producer sends the next record
Send ==
    /\ g_open
    /\ g_next <= Len(g_records)
    /\ g_chan' = Append(g_chan, g_records[g_next])
    /\ g_next' = g_next + 1
    /\ UNCHANGED <<g_impl, g_records, g_open, g_workers, g_pc, g_holding, g_lock,
                   g_map, g_got, g_returned,
                   g_handoff>>
    /\ UNCHANGED not_group_vars

\* A producer that keeps its sender for ever
DropSenderNever == FALSE /\ UNCHANGED vars

\* The last sender is dropped once everything has been sent
DropSender ==
    /\ g_open
    /\ g_next > Len(g_records)
    /\ g_open' = FALSE
    /\ UNCHANGED <<g_impl, g_records, g_next, g_chan, g_workers, g_pc, g_holding,
                   g_lock, g_map, g_got, g_returned,
                   g_handoff>>
    /\ UNCHANGED not_group_vars

\* core.rs: for record in rx.iter(): the next record
TransformRecv(w) ==
    /\ g_impl = "transform"
    /\ g_pc[w] = "recv"
    /\ g_chan # <<>>
    /\ g_holding' = [g_holding EXCEPT ![w] = Head(g_chan)]
    /\ g_got' = [g_got EXCEPT ![w] = Append(@, Head(g_chan).id)]
    /\ g_chan' = Tail(g_chan)
    /\ g_pc' = [g_pc EXCEPT ![w] = "insert"]
    /\ UNCHANGED <<g_impl, g_records, g_next, g_open, g_workers, g_lock, g_map,
                   g_returned,
                   g_handoff>>
    /\ UNCHANGED not_group_vars

\* core.rs: rx.iter() ends when the channel is empty and disconnected
TransformEnd(w) ==
    /\ g_impl = "transform"
    /\ g_pc[w] = "recv"
    /\ g_chan = <<>>
    /\ ~g_open
    /\ g_pc' = [g_pc EXCEPT ![w] = "done"]
    /\ UNCHANGED <<g_impl, g_records, g_next, g_open, g_chan, g_workers, g_holding,
                   g_lock, g_map, g_got, g_returned,
                   g_handoff>>
    /\ UNCHANGED not_group_vars

\* processor.rs: receiver.lock().unwrap()
ProcessorLock(w) ==
    /\ g_impl = "processor"
    /\ g_pc[w] = "recv"
    /\ g_lock = 0
    /\ g_lock' = w
    /\ g_pc' = [g_pc EXCEPT ![w] = "locked"]
    /\ UNCHANGED <<g_impl, g_records, g_next, g_open, g_chan, g_workers, g_holding,
                   g_map, g_got, g_returned,
                   g_handoff>>
    /\ UNCHANGED not_group_vars

\* processor.rs: receiver.recv() returns Ok(record); the guard is dropped
ProcessorRecv(w) ==
    /\ g_impl = "processor"
    /\ g_pc[w] = "locked"
    /\ g_chan # <<>>
    /\ g_holding' = [g_holding EXCEPT ![w] = Head(g_chan)]
    /\ g_got' = [g_got EXCEPT ![w] = Append(@, Head(g_chan).id)]
    /\ g_chan' = Tail(g_chan)
    /\ g_lock' = 0
    /\ g_pc' = [g_pc EXCEPT ![w] = "insert"]
    /\ UNCHANGED <<g_impl, g_records, g_next, g_open, g_workers, g_map, g_returned,
                   g_handoff>>
    /\ UNCHANGED not_group_vars

\* processor.rs: receiver.recv() returns Err: channel closed, break
ProcessorEnd(w) ==
    /\ g_impl = "processor"
    /\ g_pc[w] = "locked"
    /\ g_chan = <<>>
    /\ ~g_open
    /\ g_lock' = 0
    /\ g_pc' = [g_pc EXCEPT ![w] = "done"]
    /\ UNCHANGED <<g_impl, g_records, g_next, g_open, g_chan, g_workers, g_holding,
                   g_map, g_got, g_returned,
                   g_handoff>>
    /\ UNCHANGED not_group_vars

\* core.rs: entry(record.grouping_key()).or_default().push(record);
\* processor.rs: entry(record.record_type()).or_insert_with(..), lock, push
Insert(w) ==
    /\ g_pc[w] = "insert"
    /\ g_map' = map_insert(g_map,
                           IF g_impl = "processor"
                           THEN record_type(g_holding[w])
                           ELSE grouping_key(g_holding[w]),
                           g_holding[w])
    /\ g_holding' = [g_holding EXCEPT ![w] = NoRecord]
    /\ g_pc' = [g_pc EXCEPT ![w] = "recv"]
    /\ UNCHANGED <<g_impl, g_records, g_next, g_open, g_chan, g_workers, g_lock,
                   g_got, g_returned,
                   g_handoff>>
    /\ UNCHANGED not_group_vars

\* Every handle has been joined; the map is returned: transform unwraps
\* the Arc, process_records_streaming returns processor.get_records()
JoinAll ==
    /\ g_impl \in {"transform", "processor"}
    /\ ~g_returned
    /\ handles_joined(g_pc)
    /\ g_returned' = TRUE
    /\ g_handoff' = IF g_impl = "transform" THEN try_unwrap(strong_count(g_pc))
                    ELSE "map"
    /\ UNCHANGED <<g_impl, g_records, g_next, g_open, g_chan, g_workers, g_pc,
                   g_holding, g_lock, g_map, g_got>>
    /\ UNCHANGED not_group_vars

\* Engine::run: self.sink.load(grouped_records, output_path);
\* main.rs run: write_output_files(&grouped_records, ..)
StartLoad ==
    /\ g_handoff = "map"
    /\ g_handoff' = "load"
    /\ UNCHANGED <<g_impl, g_records, g_next, g_open, g_chan, g_workers, g_pc,
                   g_holding, g_lock, g_map, g_got, g_returned>>
    /\ UNCHANGED not_group_vars

NextGroup ==
    \/ Send
    \/ DropSender
    \/ \E w \in Workers : TransformRecv(w)
    \/ \E w \in Workers : TransformEnd(w)
    \/ \E w \in Workers : ProcessorLock(w)
    \/ \E w \in Workers : ProcessorRecv(w)
    \/ \E w \in Workers : ProcessorEnd(w)
    \/ \E w \in Workers : Insert(w)
    \/ JoinAll
    \/ StartLoad

SpecGroup == InitGroup /\ [][NextGroup]_vars

\* The steps of worker w
WorkerStep(w) ==
    \/ TransformRecv(w)
    \/ TransformEnd(w)
    \/ ProcessorLock(w)
    \/ ProcessorRecv(w)
    \/ ProcessorEnd(w)
    \/ Insert(w)

\* The initial states of the grouping stage with few records and workers
InitFairGroup ==
    /\ ExtractIdle
    /\ InitGroup
    /\ Len(g_records) <= MaxFairRecords
    /\ g_workers <= MaxFairWorkers

\* The producer thread, every worker thread and the joining thread are
\* scheduled: a step that stays enabled is eventually taken
FairSpecGroup ==
    /\ InitFairGroup
    /\ [][NextGroup]_vars
    /\ WF_vars(Send)
    /\ WF_vars(DropSender)
    /\ \A w \in 1..MaxFairWorkers : WF_vars(w \in Workers /\ WorkerStep(w))
    /\ WF_vars(JoinAll)

----------------------------------------------------------------------------
(* Per-group ordering in the sinks: create_mini_zip with reorder_by_indices *)
(* (csv_zip.rs) and create_csv_buffer (csv_7z.rs).  A sort key is an        *)
(* Option<String>: NoneKey is None, 0 is Some(""), and 1, 2, ... are        *)
(* non-empty strings in their lexicographic order, so the derived order of  *)
(* Option (None before every Some) is the order of the integers.            *)

NoneKey == -1

SortKeys == {NoneKey} \cup 0..MaxSortKey

\* Processable::sort_key
sort_key(r) == r.key

\* Option::unwrap_or_default on a sort key
unwrap_or_default(k) == IF k = NoneKey THEN 0 ELSE k

\* All orderings of 0..n-1, as sequences of indices
Permutations0(n) ==
    { p \in [1..n -> 0..(n - 1)] : \A i, j \in 1..n : i # j => p[i] # p[j] }

\* An index sort that orders nothing
sort_unstable_by_key_unsorted(n, keys) == Permutations0(n)

\* indices.sort_unstable_by_key(|&idx| sort_keys[idx]): the orders an unstable
\* sort may leave, any arrangement with non-decreasing keys
sort_unstable_by_key(n, keys) ==
    { p \in Permutations0(n) :
          \A i \in 1..(n - 1) : keys[p[i] + 1] <= keys[p[i + 1] + 1] }

\* A reordering that reads every slot from the first source index
reorder_by_indices_one_source(items, order) ==
    IF Len(items) <= 1
    THEN items
    ELSE [ i \in 1..Len(items) |-> items[order[1] + 1] ]

\* reorder_by_indices(items, order)
reorder_by_indices(items, order) ==
    IF Len(items) <= 1
    THEN items
    ELSE [ i \in 1..Len(items) |-> items[order[i] + 1] ]

\* A flag that is set whatever the keys are
has_sort_keys_always(sort_keys) == TRUE

\* if key.is_some() { has_sort_keys = true; }, over the records
has_sort_keys(sort_keys) == \E i \in DOMAIN sort_keys : sort_keys[i] # NoneKey

\* The orders of the records create_mini_zip may serialize
create_mini_zip_orders(recs) ==
    LET sort_keys == [ i \in 1..Len(recs) |-> sort_key(recs[i]) ]
    IN  IF has_sort_keys(sort_keys)
        THEN { reorder_by_indices(recs, indices) :
                   indices \in sort_unstable_by_key(Len(recs), sort_keys) }
        ELSE { recs }

\* Insertion of r behind every element whose key is not greater: one step of
\* a stable sort
RECURSIVE stable_insert(_, _)
stable_insert(sorted, r) ==
    IF sorted = <<>>
    THEN <<r>>
    ELSE IF unwrap_or_default(sort_key(Last(sorted))) <= unwrap_or_default(sort_key(r))
         THEN Append(sorted, r)
         ELSE Append(stable_insert(Front(sorted), r), Last(sorted))

\* recs.sort_by_key(|r| r.sort_key().unwrap_or_default()): a stable sort
RECURSIVE sort_by_key(_)
sort_by_key(recs) ==
    IF recs = <<>>
    THEN <<>>
    ELSE stable_insert(sort_by_key(Front(recs)), Last(recs))

\* The field names a record may carry, in their sorted order
FieldNames == <<"a", "b", "c">>

\* The field sets of the records of the model
FieldSets == { {"a", "b"}, {"b", "c"} }

\* CsvWritable::header_keys (csv_7z.rs calls it headers): the names of the
\* fields the record has
header_keys(r) == r.fields

\* No value: the empty cell
EmptyCell == <<>>

\* CsvWritable::write: one cell per header, the record's value of that field
\* or an empty cell
write(r, headers) ==
    [ i \in 1..Len(headers) |->
          IF headers[i] \in r.fields THEN <<r.id, headers[i]>> ELSE EmptyCell ]

\* A header set taken from the first record alone
header_set_of_first(recs) == header_keys(recs[1])

\* for r in recs { header_set.extend(r.header_keys()) }
header_set(recs) == UNION { header_keys(recs[i]) : i \in 1..Len(recs) }

\* The header row: the set's names, each once, in sorted order (collect and
\* sort_unstable in csv_zip.rs, the iteration of the BTreeSet in csv_7z.rs)
headers_of(recs) == SelectSeq(FieldNames, LAMBDA f : f \in header_set(recs))

\* w.write_record(&headers); for r in recs { r.write(&mut w, &headers) }
write_rows(recs, headers) == [ p \in 1..Len(recs) |-> write(recs[p], headers) ]

\* Groups as filter_entries hands them on: never empty
Groups ==
    UNION { { [ i \in 1..n |-> [id |-> i, key |-> ks[i], fields |-> fs[i]] ] :
                  ks \in [1..n -> SortKeys], fs \in [1..n -> FieldSets] } :
            n \in 1..MaxGroup }

InitSink ==
    /\ ExtractIdle
    /\ ZipIdle
    /\ CancelIdle
    /\ StreamIdle
    /\ JoinIdle
    /\ ScanIdle
    /\ GroupIdle
    /\ LoadIdle
    /\ RunIdle
    /\ s_sink \in {"zip", "7z"}
    /\ s_recs \in Groups
    /\ s_rows = <<>>
    /\ s_header = <<>>
    /\ s_cells = <<>>
    /\ s_done = FALSE

\* csv_zip.rs create_mini_zip: order the records, then write one row each
CreateMiniZip ==
    /\ s_sink = "zip"
    /\ ~s_done
    /\ s_rows' \in create_mini_zip_orders(s_recs)
    /\ s_header' = headers_of(s_rows')
    /\ s_cells' = write_rows(s_rows', s_header')
    /\ s_done' = TRUE
    /\ UNCHANGED <<s_sink, s_recs>>
    /\ UNCHANGED not_sink_vars

\* csv_7z.rs create_csv_buffer: sort the records, then write one row each
CreateCsvBuffer ==
    /\ s_sink = "7z"
    /\ ~s_done
    /\ s_rows' = sort_by_key(s_recs)
    /\ s_header' = headers_of(s_rows')
    /\ s_cells' = write_rows(s_rows', s_header')
    /\ s_done' = TRUE
    /\ UNCHANGED <<s_sink, s_recs>>
    /\ UNCHANGED not_sink_vars

NextSink ==
    \/ CreateMiniZip
    \/ CreateCsvBuffer

SpecSink == InitSink /\ [][NextSink]_vars

----------------------------------------------------------------------------
(* The load phase: CsvZipSink::load_sync and Csv7zSink::load_sync (filter,   *)
(* parallel serialization on the rayon pool, bounded merge channel, one      *)
(* merge thread that appends to the container) and write_output_files with   *)
(* create_zip (main.rs, writer.rs).  A group key is a sequence of tokens: a  *)
(* token is one character, or the whole prefix "HKQuantityTypeIdentifier"    *)
(* that sanitize_filename removes (the three other prefixes it removes are   *)
(* handled by the same replace).  The records of key k are <<k, 1>>, ...     *)

Max(a, b) == IF a > b THEN a ELSE b

\* The group keys of the model
KeyUniverse == { <<"S">>,
                 <<"HKQuantityTypeIdentifier", "S">>,
                 <<"W">>,
                 <<":", "W">> }

\* The byte order of the first bytes of the tokens: ':' < 'H' < 'S' < 'W' < '_'
TokenRank(t) ==
    CASE t = ":" -> 1
      [] t = "HKQuantityTypeIdentifier" -> 2
      [] t = "S" -> 3
      [] t = "W" -> 4
      [] t = "_" -> 5
      [] t = ".csv" -> 0

\* a.0.cmp(&b.0) = Less: the lexicographic order of strings
RECURSIVE KeyLess(_, _)
KeyLess(a, b) ==
    IF b = <<>> THEN FALSE
    ELSE IF a = <<>> THEN TRUE
    ELSE IF Head(a) = Head(b) THEN KeyLess(Tail(a), Tail(b))
    ELSE TokenRank(Head(a)) < TokenRank(Head(b))

\* The records stored under key k in the map m
RecordsOf(m, k) == { <<k, i>> : i \in 1..m[k] }

\* input.replace("HKQuantityTypeIdentifier", "")
remove_prefixes(input) == SelectSeq(input, LAMBDA t : t # "HKQuantityTypeIdentifier")

\* The character map of sanitize_filename: invalid and control characters
\* become '_'
replace_invalid(input) ==
    [ i \in 1..Len(input) |-> IF input[i] = ":" THEN "_" ELSE input[i] ]

\* str::trim_matches('_')
RECURSIVE trim_matches(_)
trim_matches(name) ==
    IF name = <<>> THEN <<>>
    ELSE IF Head(name) = "_" THEN trim_matches(Tail(name))
    ELSE IF name[Len(name)] = "_" THEN trim_matches(SubSeq(name, 1, Len(name) - 1))
    ELSE name

\* util::sanitize_filename
sanitize_filename(input) == trim_matches(replace_invalid(remove_prefixes(input)))

\* format!("{}.csv", name)
csv_name(name) == Append(name, ".csv")

\* entries.sort_by(|a, b| a.0.cmp(&b.0)) on the keys, which are distinct
RECURSIVE sort_by_name(_)
sort_by_name(keys) ==
    IF keys = {} THEN <<>>
    ELSE LET first == CHOOSE k \in keys : \A o \in keys \ {k} : KeyLess(k, o)
         IN  <<first>> \o sort_by_name(keys \ {first})

\* filter_entries: the non-empty groups, sorted by key
filter_entries(grouped_records) ==
    LET names == sort_by_name({ k \in DOMAIN grouped_records : grouped_records[k] # 0 })
    IN  [ i \in 1..Len(names) |->
              [name |-> names[i], recs |-> RecordsOf(grouped_records, names[i])] ]

\* The 7z sink given the capacity of the zip sink
queue_capacity_of_zip(path, threads) == Max(threads * 2, 4)

\* The capacity of the merge channel: (threads * 2).max(4) in csv_zip.rs,
\* 1 in csv_7z.rs
queue_capacity(path, threads) == IF path = "zip" THEN Max(threads * 2, 4) ELSE 1

\* The mini archive / buffer of an entry: the entry name and the rows
create_entry(e) == [name |-> csv_name(e.name), key |-> e.name, recs |-> e.recs]

RayonWorkers == 1..l_threads

\* The thread spawn_merger / spawn_writer starts; the rayon workers are 1, 2, ...
MergeThread == 0

\* The closure of try_for_each captures tx and nothing else: a step of worker
\* t leaves the users of the container handle as they are
users_after_worker_step_sharing(users, t) == users \cup {t}

users_after_worker_step(users, t) == users

\* A load that goes on to join the merger whatever the closures returned
try_for_each_result_ignored(werr) == "Ok"

\* entries.into_par_iter().try_for_each(..)?: Err when a closure returned Err
try_for_each_result(werr) == IF werr THEN "Err" ELSE "Ok"

\* A join that discards what the merge thread returned
join_result_ignored(merger) == "Ok"

\* merge_handle.join().expect(..): the Result the merge thread returned
join_result(merger) == IF merger = "finished" THEN "Ok" ELSE "Err"

\* The grouped records a load may be given: some keys, empty groups included
LoadMaps ==
    UNION { [ks -> 0..MaxLoadRecords] :
                ks \in { K \in SUBSET KeyUniverse : Cardinality(K) <= MaxKeys } }

\* A map of many groups, more than the merge channel of the zip sink holds:
\* the keys "S", "SS", ..., one record each
ManyGroups == [ k \in { [ i \in 1..n |-> "S" ] : n \in 1..ManyKeys } |-> 1 ]

\* What can fail in a load of the sinks
Faults == {"none", "serialize", "create", "write", "finish"}

InitLoad ==
    /\ ExtractIdle
    /\ ZipIdle
    /\ CancelIdle
    /\ StreamIdle
    /\ JoinIdle
    /\ ScanIdle
    /\ GroupIdle
    /\ SinkIdle
    /\ RunIdle
    /\ l_path \in {"zip", "7z", "main"}
    /\ l_threads \in 1..MaxThreads
    /\ l_map \in LoadMaps \cup (IF l_threads = 1 /\ l_path # "main" THEN {ManyGroups} ELSE {})
    /\ l_fault \in (IF l_path = "main" THEN {"none"} ELSE Faults)
    /\ l_pc = "start"
    /\ l_entries = <<>>
    /\ l_taken = {}
    /\ l_hold = [ t \in 1..l_threads |-> 0 ]
    /\ l_chan = <<>>
    /\ l_tx = FALSE
    /\ l_merger = "off"
    /\ l_out = <<>>
    /\ l_files = <<>>
    /\ l_visited = {}
    /\ l_done = FALSE
    /\ l_werr = FALSE
    /\ l_result = "none"
    /\ l_finished = FALSE
    /\ l_users = {}

\* load_sync: filter_entries, bounded(queue_capacity), spawn_merger
LoadStart ==
    /\ l_path \in {"zip", "7z"}
    /\ l_pc = "start"
    /\ l_entries' = filter_entries(l_map)
    /\ l_tx' = TRUE
    /\ l_merger' = "spawned"
    /\ l_pc' = "produce"
    /\ UNCHANGED <<l_path, l_map, l_threads, l_taken, l_hold, l_chan, l_out, l_files,
                   l_visited, l_done, l_fault, l_werr, l_result, l_finished, l_users>>
    /\ UNCHANGED not_load_vars

\* The merge thread begins: File::create(&output_path)?, the archive writer
MergerCreate ==
    /\ l_merger = "spawned"
    /\ IF l_fault = "create"
       THEN l_merger' = "failed" /\ l_chan' = <<>>
       ELSE l_merger' = "running" /\ l_chan' = l_chan
    /\ l_users' = l_users \cup {MergeThread}
    /\ UNCHANGED <<l_path, l_map, l_threads, l_pc, l_entries, l_taken, l_hold, l_tx,
                   l_out, l_files, l_visited, l_done, l_fault, l_werr, l_result,
                   l_finished>>
    /\ UNCHANGED not_load_vars

\* entries.into_par_iter().try_for_each: a rayon worker takes an entry (the
\* next one when the pool has one thread, any remaining one otherwise) and
\* serializes it with create_mini_zip / create_csv_buffer
Serialize(t) ==
    /\ l_pc = "produce"
    /\ l_hold[t] = 0
    /\ \E i \in DOMAIN l_entries \ l_taken :
           /\ l_threads = 1 => \A j \in DOMAIN l_entries \ l_taken : i <= j
           /\ l_taken' = l_taken \cup {i}
           /\ l_hold' = [l_hold EXCEPT ![t] = i]
    /\ l_users' = users_after_worker_step(l_users, t)
    /\ UNCHANGED <<l_path, l_map, l_threads, l_pc, l_entries, l_chan, l_tx, l_merger,
                   l_out, l_files, l_visited, l_done, l_fault, l_werr, l_result,
                   l_finished>>
    /\ UNCHANGED not_load_vars

\* create_mini_zip(&name, &mut recs)? / create_csv_buffer(..)? returns Err:
\* the closure returns Err and nothing is sent for the entry
SerializeFails(t) ==
    /\ l_pc = "produce"
    /\ l_fault = "serialize"
    /\ l_hold[t] = 0
    /\ \E i \in DOMAIN l_entries \ l_taken :
           /\ l_threads = 1 => \A j \in DOMAIN l_entries \ l_taken : i <= j
           /\ l_taken' = l_taken \cup {i}
    /\ l_werr' = TRUE
    /\ l_users' = users_after_worker_step(l_users, t)
    /\ UNCHANGED <<l_path, l_map, l_threads, l_pc, l_entries, l_hold, l_chan, l_tx,
                   l_merger, l_out, l_files, l_visited, l_done, l_fault, l_result,
                   l_finished>>
    /\ UNCHANGED not_load_vars

\* tx.send((name, cursor)): blocks while the channel is full
SendEntry(t) ==
    /\ l_pc = "produce"
    /\ l_hold[t] # 0
    /\ l_merger \in {"spawned", "running"}
    /\ Len(l_chan) < queue_capacity(l_path, l_threads)
    /\ l_chan' = Append(l_chan, create_entry(l_entries[l_hold[t]]))
    /\ l_hold' = [l_hold EXCEPT ![t] = 0]
    /\ l_users' = users_after_worker_step(l_users, t)
    /\ UNCHANGED <<l_path, l_map, l_threads, l_pc, l_entries, l_taken, l_tx, l_merger,
                   l_out, l_files, l_visited, l_done, l_fault, l_werr, l_result,
                   l_finished>>
    /\ UNCHANGED not_load_vars

\* A channel on which a send to a dropped receiver waits for ever
SendFailsNever(t) == FALSE /\ UNCHANGED vars

\* tx.send(..).map_err(..)?: the merge thread has returned and dropped rx, the
\* send fails at once (a blocked send is woken) and the closure returns Err
SendFails(t) ==
    /\ l_pc = "produce"
    /\ l_hold[t] # 0
    /\ l_merger = "failed"
    /\ l_hold' = [l_hold EXCEPT ![t] = 0]
    /\ l_werr' = TRUE
    /\ l_users' = users_after_worker_step(l_users, t)
    /\ UNCHANGED <<l_path, l_map, l_threads, l_pc, l_entries, l_taken, l_chan, l_tx,
                   l_merger, l_out, l_files, l_visited, l_done, l_fault, l_result,
                   l_finished>>
    /\ UNCHANGED not_load_vars

\* try_for_each has returned Ok: drop(tx)
DropTx ==
    /\ l_pc = "produce"
    /\ l_taken = DOMAIN l_entries
    /\ \A t \in RayonWorkers : l_hold[t] = 0
    /\ try_for_each_result(l_werr) = "Ok"
    /\ l_tx' = FALSE
    /\ l_pc' = "join"
    /\ UNCHANGED <<l_path, l_map, l_threads, l_entries, l_taken, l_hold, l_chan,
                   l_merger, l_out, l_files, l_visited, l_done, l_fault, l_werr,
                   l_result, l_finished, l_users>>
    /\ UNCHANGED not_load_vars

\* try_for_each(..)? has returned Err, once the closures that were running
\* have returned (entries not yet started may be skipped): load_sync returns
\* the error; tx is dropped and the merge thread is left running
ReturnErr ==
    /\ l_pc = "produce"
    /\ \A t \in RayonWorkers : l_hold[t] = 0
    /\ try_for_each_result(l_werr) = "Err"
    /\ l_tx' = FALSE
    /\ l_result' = "Err"
    /\ l_pc' = "done"
    /\ l_done' = TRUE
    /\ UNCHANGED <<l_path, l_map, l_threads, l_entries, l_taken, l_hold, l_chan,
                   l_merger, l_out, l_files, l_visited, l_fault, l_werr, l_finished,
                   l_users>>
    /\ UNCHANGED not_load_vars

\* spawn_merger / spawn_writer: for (name, mini) in rx: append to the container
Merge ==
    /\ l_merger = "running"
    /\ l_chan # <<>>
    /\ l_out' = Append(l_out, Head(l_chan))
    /\ l_chan' = Tail(l_chan)
    /\ l_users' = l_users \cup {MergeThread}
    /\ UNCHANGED <<l_path, l_map, l_threads, l_pc, l_entries, l_taken, l_hold, l_tx,
                   l_merger, l_files, l_visited, l_done, l_fault, l_werr, l_result,
                   l_finished>>
    /\ UNCHANGED not_load_vars

\* zip.merge_archive(src)? / writer.push_archive_entry(..)? returns Err: the
\* merge thread returns the error and rx is dropped with what it still holds
MergeFails ==
    /\ l_merger = "running"
    /\ l_fault = "write"
    /\ l_chan # <<>>
    /\ l_merger' = "failed"
    /\ l_chan' = <<>>
    /\ l_users' = l_users \cup {MergeThread}
    /\ UNCHANGED <<l_path, l_map, l_threads, l_pc, l_entries, l_taken, l_hold, l_tx,
                   l_out, l_files, l_visited, l_done, l_fault, l_werr, l_result,
                   l_finished>>
    /\ UNCHANGED not_load_vars

\* The channel is empty and disconnected: zip.finish()? / writer.finish()?
MergerFinish ==
    /\ l_merger = "running"
    /\ l_chan = <<>>
    /\ ~l_tx
    /\ IF l_fault = "finish"
       THEN l_merger' = "failed" /\ l_finished' = l_finished
       ELSE l_merger' = "finished" /\ l_finished' = TRUE
    /\ l_users' = l_users \cup {MergeThread}
    /\ UNCHANGED <<l_path, l_map, l_threads, l_pc, l_entries, l_taken, l_hold, l_chan,
                   l_tx, l_out, l_files, l_visited, l_done, l_fault, l_werr, l_result>>
    /\ UNCHANGED not_load_vars

\* merge_handle.join(): load_sync returns what the merge thread returned
JoinMerger ==
    /\ l_pc = "join"
    /\ l_merger \in {"finished", "failed"}
    /\ l_result' = join_result(l_merger)
    /\ l_pc' = "done"
    /\ l_done' = TRUE
    /\ UNCHANGED <<l_path, l_map, l_threads, l_entries, l_taken, l_hold, l_chan, l_tx,
                   l_merger, l_out, l_files, l_visited, l_fault, l_werr, l_finished,
                   l_users>>
    /\ UNCHANGED not_load_vars

\* write_output_files: one turn of the loop over grouped_records.iter(), in
\* the map's order; File::create replaces a file of the same name
WriteCsv ==
    /\ l_path = "main"
    /\ l_pc = "start"
    /\ \E k \in DOMAIN l_map \ l_visited :
           /\ l_visited' = l_visited \cup {k}
           /\ IF l_map[k] > 0
              THEN LET csv_filename == csv_name(sanitize_filename(k))
                   IN  l_files' = [ f \in DOMAIN l_files \cup {csv_filename} |->
                                        IF f = csv_filename
                                        THEN [name |-> csv_filename, key |-> k,
                                              recs |-> RecordsOf(l_map, k)]
                                        ELSE l_files[f] ]
              ELSE l_files' = l_files
    /\ UNCHANGED <<l_path, l_map, l_threads, l_pc, l_entries, l_taken, l_hold, l_chan,
                   l_tx, l_merger, l_out, l_done, l_fault, l_werr, l_result, l_finished,
                   l_users>>
    /\ UNCHANGED not_load_vars

\* writer::create_zip: every file of the directory, in the order of read_dir
CreateZip ==
    /\ l_path = "main"
    /\ l_pc = "start"
    /\ l_visited = DOMAIN l_map
    /\ \E order \in [1..Cardinality(DOMAIN l_files) -> DOMAIN l_files] :
           /\ \A i, j \in DOMAIN order : i # j => order[i] # order[j]
           /\ l_out' = [ i \in DOMAIN order |-> l_files[order[i]] ]
    /\ l_pc' = "done"
    /\ l_done' = TRUE
    /\ l_result' = "Ok"
    /\ l_finished' = TRUE
    /\ UNCHANGED <<l_path, l_map, l_threads, l_entries, l_taken, l_hold, l_chan, l_tx,
                   l_merger, l_files, l_visited, l_fault, l_werr, l_users>>
    /\ UNCHANGED not_load_vars

NextLoad ==
    \/ LoadStart
    \/ MergerCreate
    \/ \E t \in RayonWorkers : Serialize(t)
    \/ \E t \in RayonWorkers : SerializeFails(t)
    \/ \E t \in RayonWorkers : SendEntry(t)
    \/ \E t \in RayonWorkers : SendFails(t)
    \/ DropTx
    \/ ReturnErr
    \/ Merge
    \/ MergeFails
    \/ MergerFinish
    \/ JoinMerger
    \/ WriteCsv
    \/ CreateZip

SpecLoad == InitLoad /\ [][NextLoad]_vars

\* The steps of the rayon worker t
SerializerStep(t) ==
    \/ Serialize(t)
    \/ SerializeFails(t)
    \/ SendEntry(t)
    \/ SendFails(t)

\* The steps of the merge thread
MergerStep ==
    \/ MergerCreate
    \/ Merge
    \/ MergeFails
    \/ MergerFinish

\* The steps of the thread that called load
LoaderStep ==
    \/ LoadStart
    \/ DropTx
    \/ ReturnErr
    \/ JoinMerger
    \/ WriteCsv
    \/ CreateZip

\* The calling thread, the merge thread and every worker of the pool are
\* scheduled: a thread that can take a step eventually takes one
\* The loads of groups of at most one record
InitFairLoad ==
    /\ ExtractIdle
    /\ InitLoad
    /\ \A k \in DOMAIN l_map : l_map[k] <= 1

FairSpecLoad ==
    /\ InitFairLoad
    /\ [][NextLoad]_vars
    /\ WF_vars(LoaderStep)
    /\ WF_vars(MergerStep)
    /\ \A t \in 1..MaxThreads : WF_vars(t \in RayonWorkers /\ SerializerStep(t))

----------------------------------------------------------------------------
(* A whole run and its errors: Engine::run with AppleHealthExtractor         *)
(* (core.rs, apple_health/extractor.rs) and run of main.rs with              *)
(* parse_health_export_streaming (parser.rs).  The input is the sequence of  *)
(* its target elements; an element either decodes (from_xml returns Ok) or    *)
(* does not (a Workout whose duration is not a number).                       *)

InputConditions(wrap) ==
    IF wrap = "zip" THEN {"ok", "open_fails", "no_member", "read_fails"}
    ELSE {"ok", "open_fails", "read_fails"}

InitRun ==
    /\ ExtractIdle
    /\ ZipIdle
    /\ CancelIdle
    /\ StreamIdle
    /\ JoinIdle
    /\ ScanIdle
    /\ GroupIdle
    /\ SinkIdle
    /\ LoadIdle
    /\ r_impl \in {"engine", "main"}
    /\ r_wrap \in {"plain", "zip"}
    /\ r_input \in InputConditions(r_wrap)
    /\ r_elems \in UNION { [1..n -> {"good", "bad"}] : n \in 0..MaxElements }
    /\ r_pc = "start"
    /\ r_pos = 1
    /\ r_emitted = <<>>
    /\ r_parse = "none"
    /\ r_load_started = FALSE
    /\ r_container = FALSE
    /\ r_result = "none"

\* Engine::run: self.extractor.extract(input_path)?  extract creates the
\* channel, spawns the thread and returns Ok(receiver) whatever the input is
EngineExtract ==
    /\ r_impl = "engine"
    /\ r_pc = "start"
    /\ r_pc' = "extract_thread"
    /\ UNCHANGED <<r_impl, r_wrap, r_input, r_elems, r_pos, r_emitted, r_parse,
                   r_load_started, r_container, r_result>>
    /\ UNCHANGED not_run_vars

\* The thread of extract: File::open, extract_xml_from_zip or
\* find_streaming_chunk_boundaries returns Err; the closure's result is
\* dropped (if let Err(_) = result {}) and the sender with it
ExtractThreadFails ==
    /\ r_pc = "extract_thread"
    /\ r_input # "ok"
    /\ r_pos = 1
    /\ r_parse' = "Err"
    /\ r_pc' = "transform"
    /\ UNCHANGED <<r_impl, r_wrap, r_input, r_elems, r_pos, r_emitted,
                   r_load_started, r_container, r_result>>
    /\ UNCHANGED not_run_vars

\* process_xml_file_streaming: read_chunk_from_file(..).unwrap_or_default()
\* turns a chunk that cannot be read into an empty chunk
ExtractChunkUnreadable ==
    /\ r_pc = "extract_thread"
    /\ r_input = "read_fails"
    /\ r_wrap = "plain"
    /\ r_pos <= Len(r_elems)
    /\ r_pos' = r_pos + 1
    /\ UNCHANGED <<r_impl, r_wrap, r_input, r_elems, r_pc, r_emitted, r_parse,
                   r_load_started, r_container, r_result>>
    /\ UNCHANGED not_run_vars

\* process_chunk: if let Ok(record) = X::from_xml(e) { results.push(..) }
ExtractDecode ==
    /\ r_pc = "extract_thread"
    /\ r_input = "ok"
    /\ r_pos <= Len(r_elems)
    /\ r_emitted' = IF r_elems[r_pos] = "good" THEN Append(r_emitted, r_pos)
                    ELSE r_emitted
    /\ r_pos' = r_pos + 1
    /\ UNCHANGED <<r_impl, r_wrap, r_input, r_elems, r_pc, r_parse,
                   r_load_started, r_container, r_result>>
    /\ UNCHANGED not_run_vars

\* The thread of extract returns Ok(()): every chunk is done, the sender is
\* dropped
ExtractThreadEnds ==
    /\ r_pc = "extract_thread"
    /\ r_input = "ok" \/ (r_input = "read_fails" /\ r_wrap = "plain" /\ r_pos > 1)
    /\ r_pos > Len(r_elems)
    /\ r_parse' = "Ok"
    /\ r_pc' = "transform"
    /\ UNCHANGED <<r_impl, r_wrap, r_input, r_elems, r_pos, r_emitted,
                   r_load_started, r_container, r_result>>
    /\ UNCHANGED not_run_vars

\* Engine::run: transformer::transform(receiver, ..) returns when the channel
\* is closed
EngineTransform ==
    /\ r_pc = "transform"
    /\ r_pc' = "load"
    /\ UNCHANGED <<r_impl, r_wrap, r_input, r_elems, r_pos, r_emitted, r_parse,
                   r_load_started, r_container, r_result>>
    /\ UNCHANGED not_run_vars

\* Engine::run: self.sink.load(grouped_records, output_path)?; Ok(())
EngineLoad ==
    /\ r_pc = "load"
    /\ r_load_started' = TRUE
    /\ r_container' = TRUE
    /\ r_result' = "Ok"
    /\ r_pc' = "done"
    /\ UNCHANGED <<r_impl, r_wrap, r_input, r_elems, r_pos, r_emitted, r_parse>>
    /\ UNCHANGED not_run_vars

\* main.rs run: start_streaming_parser(&config.input_file)?  File::open,
\* the search for export.xml and read_to_end of the member are done here
StartStreamingParser ==
    /\ r_impl = "main"
    /\ r_pc = "start"
    /\ IF r_input \in {"open_fails", "no_member"}
          \/ (r_input = "read_fails" /\ r_wrap = "zip")
       THEN r_result' = "Err" /\ r_pc' = "failed"
       ELSE r_result' = r_result /\ r_pc' = "parser_thread"
    /\ UNCHANGED <<r_impl, r_wrap, r_input, r_elems, r_pos, r_emitted, r_parse,
                   r_load_started, r_container>>
    /\ UNCHANGED not_run_vars

\* parse_health_export_streaming: X::from_xml(e)? then sender.send(..)
ParserDecode ==
    /\ r_pc = "parser_thread"
    /\ r_pos <= Len(r_elems)
    /\ IF r_elems[r_pos] = "good"
       THEN /\ r_emitted' = Append(r_emitted, r_pos)
            /\ r_pos' = r_pos + 1
            /\ UNCHANGED <<r_parse, r_pc>>
       ELSE /\ r_parse' = "Err"
            /\ r_pc' = "join"
            /\ UNCHANGED <<r_emitted, r_pos>>
    /\ UNCHANGED <<r_impl, r_wrap, r_input, r_elems, r_load_started, r_container,
                   r_result>>
    /\ UNCHANGED not_run_vars

\* parse_health_export_streaming: read_event_into returns Err (the reader
\* of a plain file fails): return Err(ParseError)
ParserReadError ==
    /\ r_pc = "parser_thread"
    /\ r_input = "read_fails"
    /\ r_parse' = "Err"
    /\ r_pc' = "join"
    /\ UNCHANGED <<r_impl, r_wrap, r_input, r_elems, r_pos, r_emitted,
                   r_load_started, r_container, r_result>>
    /\ UNCHANGED not_run_vars

\* parse_health_export_streaming: Event::Eof, drop(sender), Ok(())
ParserEof ==
    /\ r_pc = "parser_thread"
    /\ r_input = "ok"
    /\ r_pos > Len(r_elems)
    /\ r_parse' = "Ok"
    /\ r_pc' = "join"
    /\ UNCHANGED <<r_impl, r_wrap, r_input, r_elems, r_pos, r_emitted,
                   r_load_started, r_container, r_result>>
    /\ UNCHANGED not_run_vars

\* main.rs run: process_records_streaming has returned (the channel is
\* closed); parser_handle.join(): Ok(result) => result?
JoinParser ==
    /\ r_pc = "join"
    /\ IF r_parse = "Err"
       THEN r_result' = "Err" /\ r_pc' = "failed"
       ELSE r_result' = r_result /\ r_pc' = "write"
    /\ UNCHANGED <<r_impl, r_wrap, r_input, r_elems, r_pos, r_emitted, r_parse,
                   r_load_started, r_container>>
    /\ UNCHANGED not_run_vars

\* main.rs run: write_output_files(..)?; report_completion; Ok(())
WriteOutputFiles ==
    /\ r_pc = "write"
    /\ r_load_started' = TRUE
    /\ r_container' = TRUE
    /\ r_result' = "Ok"
    /\ r_pc' = "done"
    /\ UNCHANGED <<r_impl, r_wrap, r_input, r_elems, r_pos, r_emitted, r_parse>>
    /\ UNCHANGED not_run_vars

NextRun ==
    \/ EngineExtract
    \/ ExtractThreadFails
    \/ ExtractChunkUnreadable
    \/ ExtractDecode
    \/ ExtractThreadEnds
    \/ EngineTransform
    \/ EngineLoad
    \/ StartStreamingParser
    \/ ParserDecode
    \/ ParserReadError
    \/ ParserEof
    \/ JoinParser
    \/ WriteOutputFiles

SpecRun == InitRun /\ [][NextRun]_vars

----------------------------------------------------------------------------
(* The worker threads of the grouping stage and the driver that joins them: *)
(* transformer::transform under Engine::run (core.rs), and                  *)
(* process_records_from_channel (processor.rs) under                        *)
(* process_records_streaming and run (main.rs).  A worker may panic at any  *)
(* point of its loop; the records themselves are left out.                  *)

JoinWorkers == DOMAIN j_state

\* A driver that does not look at what the parser thread returned
parser_join_result_ignored(parser) == "Ok"

\* match parser_handle.join() { Ok(result) => result?, .. }
parser_join_result(parser) == IF parser = "Err" THEN "Err" ELSE "Ok"

\* A driver that takes every joined handle for a success
join_outcome_ignored(state) == "Ok"

\* handle.join(): Ok(()) when the thread returned, Err when it panicked
join_outcome(state) == IF state = "panicked" THEN "Err" ELSE "Ok"

InitJoin ==
    /\ ExtractIdle
    /\ ZipIdle
    /\ CancelIdle
    /\ StreamIdle
    /\ ScanIdle
    /\ GroupIdle
    /\ SinkIdle
    /\ LoadIdle
    /\ RunIdle
    /\ j_impl \in {"transform", "main"}
    /\ \E n \in 1..MaxJoinWorkers : j_state = [ w \in 1..n |-> "running" ]
    /\ j_closed = FALSE
    /\ j_poisoned = FALSE
    /\ j_next = 1
    /\ j_stage = "none"
    /\ j_run = "none"
    /\ j_parser = "running"

\* The producer thread ends, with Ok(()) at the end of the input or with an
\* error before it; either way its sender is dropped, and the records it
\* sent have been received
ChannelCloses ==
    /\ j_impl \in {"transform", "main"}
    /\ ~j_closed
    /\ j_closed' = TRUE
    /\ \E result \in {"Ok", "Err"} : j_parser' = result
    /\ UNCHANGED <<j_impl, j_state, j_poisoned, j_next, j_stage, j_run>>
    /\ UNCHANGED not_join_vars

\* processor.rs: receiver.lock().unwrap(): the lock is taken, or the mutex is
\* poisoned and unwrap panics
WorkerLocks(w) ==
    /\ j_impl = "main"
    /\ j_state[w] = "running"
    /\ \A v \in JoinWorkers : j_state[v] # "locked"
    /\ j_state' = [j_state EXCEPT ![w] = IF j_poisoned THEN "panicked" ELSE "locked"]
    /\ UNCHANGED <<j_impl, j_closed, j_poisoned, j_next, j_stage, j_run, j_parser>>
    /\ UNCHANGED not_join_vars

\* processor.rs: recv() returned a record, the guard is dropped, the record
\* is inserted and the loop goes round
WorkerProcesses(w) ==
    /\ j_impl = "main"
    /\ j_state[w] = "locked"
    /\ ~j_closed
    /\ j_state' = [j_state EXCEPT ![w] = "running"]
    /\ UNCHANGED <<j_impl, j_closed, j_poisoned, j_next, j_stage, j_run, j_parser>>
    /\ UNCHANGED not_join_vars

\* The channel is closed: rx.iter() ends (core.rs), recv() returns Err and
\* the loop breaks (processor.rs); the thread returns
WorkerEnds(w) ==
    /\ j_closed
    /\ j_state[w] = (IF j_impl = "main" THEN "locked" ELSE "running")
    /\ j_state' = [j_state EXCEPT ![w] = "done"]
    /\ UNCHANGED <<j_impl, j_closed, j_poisoned, j_next, j_stage, j_run, j_parser>>
    /\ UNCHANGED not_join_vars

\* The thread panics; a panic while the guard of the receiver is held
\* poisons its mutex
WorkerPanics(w) ==
    /\ j_state[w] \in {"running", "locked"}
    /\ j_state' = [j_state EXCEPT ![w] = "panicked"]
    /\ j_poisoned' = (j_poisoned \/ j_state[w] = "locked")
    /\ UNCHANGED <<j_impl, j_closed, j_next, j_stage, j_run, j_parser>>
    /\ UNCHANGED not_join_vars

\* The driver joins the next handle, in the order the threads were spawned.
\* core.rs: Err(_) => panic!("Worker {} panicked");
\* main.rs: Err(_) => return Err(AppError::Unknown(..))
JoinHandle ==
    /\ j_stage = "none"
    /\ j_next \in JoinWorkers
    /\ j_state[j_next] \in {"done", "panicked"}
    /\ IF join_outcome(j_state[j_next]) = "Err"
       THEN /\ j_stage' = (IF j_impl = "transform" THEN "panic" ELSE "Err")
            /\ j_next' = j_next
       ELSE /\ j_stage' = j_stage
            /\ j_next' = j_next + 1
    /\ UNCHANGED <<j_impl, j_state, j_closed, j_poisoned, j_run, j_parser>>
    /\ UNCHANGED not_join_vars

\* Every handle has been joined: the stage returns the map
StageReturns ==
    /\ j_stage = "none"
    /\ j_next \notin JoinWorkers
    /\ j_stage' = "Ok"
    /\ UNCHANGED <<j_impl, j_state, j_closed, j_poisoned, j_next, j_run, j_parser>>
    /\ UNCHANGED not_join_vars

\* Engine::run: transform returned and the load follows, or the panic of
\* transform unwinds run.  main.rs run: process_records_streaming(..)?,
\* then parser_handle.join() and result?
DriverReturns ==
    /\ j_stage # "none"
    /\ j_run = "none"
    /\ (j_impl = "main" /\ j_stage = "Ok") => j_parser # "running"
    /\ j_run' = IF j_impl = "main" /\ j_stage = "Ok"
                THEN parser_join_result(j_parser)
                ELSE j_stage
    /\ UNCHANGED <<j_impl, j_state, j_closed, j_poisoned, j_next, j_stage, j_parser>>
    /\ UNCHANGED not_join_vars

NextJoin ==
    \/ ChannelCloses
    \/ \E w \in JoinWorkers : WorkerLocks(w)
    \/ \E w \in JoinWorkers : WorkerProcesses(w)
    \/ \E w \in JoinWorkers : WorkerEnds(w)
    \/ \E w \in JoinWorkers : WorkerPanics(w)
    \/ JoinHandle
    \/ StageReturns
    \/ DriverReturns

SpecJoin == InitJoin /\ [][NextJoin]_vars

\* The steps of worker w that are not a panic
JoinWorkerStep(w) ==
    \/ WorkerLocks(w)
    \/ WorkerProcesses(w)
    \/ WorkerEnds(w)

\* The parser thread reaches the end of its finite input (its channel is
\* unbounded, a send never waits); the workers and the driver are scheduled
FairSpecJoin ==
    /\ SpecJoin
    /\ WF_vars(ChannelCloses)
    /\ \A w \in 1..MaxJoinWorkers : WF_vars(w \in JoinWorkers /\ JoinWorkerStep(w))
    /\ WF_vars(JoinHandle)
    /\ WF_vars(StageReturns)
    /\ WF_vars(DriverReturns)

----------------------------------------------------------------------------
(* The chunk tasks of xml_utils.rs: process_stream reads the source into a  *)
(* buffer, drains a chunk at each boundary and spawns a task for it on    *)
(* the rayon scope; process_chunks runs one closure per window of the       *)
(* boundaries.  A task parses its chunk with process_chunk_slice and sends  *)
(* the records.                                                             *)

StreamPieces == { <<"<", "R", "/", ">">>, <<"<", "b", "/", ">">>, <<" ">> }

StreamInputs ==
    { Flatten(ps) : ps \in UNION { [1..n -> StreamPieces] : n \in 0..MaxStreamPieces } }

NewTask(chunk) == [chunk |-> chunk, runs |-> 0, late |-> FALSE]

\* A pool that may run the closure of an item a second time
runnable_twice(task) == task.runs < 2

\* rayon runs the closure of a spawned task / of an item once
runnable(task) == task.runs = 0

\* A scope that does not wait for its tasks
scope_joined_at_once(tasks) == TRUE

\* rayon::scope / for_each return when every task has run
scope_joined(tasks) == \A i \in DOMAIN tasks : tasks[i].runs >= 1

\* The chunks boundaries.windows(2) cuts
windows_of(d, bs) == [ i \in 1..windows_count(bs) |-> Slice(d, bs[i], bs[i + 1]) ]

InitStream ==
    /\ ExtractIdle
    /\ ZipIdle
    /\ CancelIdle
    /\ ScanIdle
    /\ GroupIdle
    /\ SinkIdle
    /\ LoadIdle
    /\ RunIdle
    /\ JoinIdle
    /\ p_fn \in {"process_stream", "process_chunks"}
    /\ p_data \in StreamInputs
    /\ p_cs \in 1..MaxStreamChunk
    /\ p_faulty \in (IF p_fn = "process_stream" THEN BOOLEAN ELSE {FALSE})
    /\ p_off = 0
    /\ p_buffer = <<>>
    /\ p_tasks = <<>>
    /\ p_sent = <<>>
    /\ p_count = 0
    /\ p_failed = FALSE
    /\ p_pc = (IF p_fn = "process_stream" THEN "read" ELSE "start")
    /\ p_result = [tag |-> "none", count |-> 0]

\* process_stream: reader.read(&mut read_buf) returns Ok(n), n > 0: a full
\* read of CHUNK_SIZE bytes (or what is left), or a short read of one byte
StreamRead ==
    /\ p_pc = "read"
    /\ p_off < Len(p_data)
    /\ \E n \in {1, Min(p_cs, Len(p_data) - p_off)} :
           /\ p_buffer' = p_buffer \o Slice(p_data, p_off, p_off + n)
           /\ p_off' = p_off + n
    /\ p_pc' = "drain"
    /\ UNCHANGED <<p_fn, p_data, p_cs, p_faulty, p_tasks, p_sent, p_count, p_failed,
                   p_result>>
    /\ UNCHANGED not_stream_vars

\* process_stream: Ok(0) => break
StreamReadEof ==
    /\ p_pc = "read"
    /\ p_off = Len(p_data)
    /\ p_pc' = "tail"
    /\ UNCHANGED <<p_fn, p_data, p_cs, p_faulty, p_off, p_buffer, p_tasks, p_sent,
                   p_count, p_failed, p_result>>
    /\ UNCHANGED not_stream_vars

\* process_stream: Err(e) => { result = Err(ParseError(..)); break }
StreamReadErr ==
    /\ p_pc = "read"
    /\ p_faulty
    /\ p_failed' = TRUE
    /\ p_pc' = "tail"
    /\ UNCHANGED <<p_fn, p_data, p_cs, p_faulty, p_off, p_buffer, p_tasks, p_sent,
                   p_count, p_result>>
    /\ UNCHANGED not_stream_vars

\* process_stream, inner loop: the buffer holds CHUNK_SIZE bytes and a
\* boundary after them: drain(..boundary) and scope.spawn
StreamSpawn ==
    /\ p_pc = "drain"
    /\ Len(p_buffer) >= p_cs
    /\ find_boundary_after(p_buffer, p_cs) # NoneIdx
    /\ LET boundary == find_boundary_after(p_buffer, p_cs)
       IN  /\ p_tasks' = Append(p_tasks, NewTask(Slice(p_buffer, 0, boundary)))
           /\ p_buffer' = SliceFrom(p_buffer, boundary)
    /\ UNCHANGED <<p_fn, p_data, p_cs, p_faulty, p_off, p_sent, p_count, p_failed,
                   p_pc, p_result>>
    /\ UNCHANGED not_stream_vars

\* process_stream, inner loop: break (too few bytes or no boundary yet)
StreamReadOn ==
    /\ p_pc = "drain"
    /\ Len(p_buffer) < p_cs \/ find_boundary_after(p_buffer, p_cs) = NoneIdx
    /\ p_pc' = "read"
    /\ UNCHANGED <<p_fn, p_data, p_cs, p_faulty, p_off, p_buffer, p_tasks, p_sent,
                   p_count, p_failed, p_result>>
    /\ UNCHANGED not_stream_vars

\* process_stream: if result.is_ok() && !buffer.is_empty(): the rest of the
\* buffer is the last chunk; then the closure of the scope ends
StreamTail ==
    /\ p_pc = "tail"
    /\ IF ~p_failed /\ p_buffer # <<>>
       THEN /\ p_tasks' = Append(p_tasks, NewTask(p_buffer))
            /\ p_buffer' = <<>>
       ELSE UNCHANGED <<p_tasks, p_buffer>>
    /\ p_pc' = "wait"
    /\ UNCHANGED <<p_fn, p_data, p_cs, p_faulty, p_off, p_sent, p_count, p_failed,
                   p_result>>
    /\ UNCHANGED not_stream_vars

\* process_chunks: find_chunk_boundaries, windows(2), par_iter
ChunksStart ==
    /\ p_pc = "start"
    /\ LET chunks == windows_of(p_data, find_chunk_boundaries(p_data, p_cs))
       IN  p_tasks' = [ i \in DOMAIN chunks |-> NewTask(chunks[i]) ]
    /\ p_pc' = "wait"
    /\ UNCHANGED <<p_fn, p_data, p_cs, p_faulty, p_off, p_buffer, p_sent, p_count,
                   p_failed, p_result>>
    /\ UNCHANGED not_stream_vars

\* A pool thread runs task i: (count.fetch_add(1),) process_chunk_slice,
\* then s.send(r) for every record
TaskRun(i) ==
    /\ runnable(p_tasks[i])
    /\ p_tasks' = [p_tasks EXCEPT ![i] = [chunk |-> @.chunk, runs |-> @.runs + 1,
                                          late |-> p_failed]]
    /\ p_sent' = p_sent \o process_chunk_slice(p_tasks[i].chunk)
    /\ p_count' = IF p_fn = "process_chunks" THEN p_count + 1 ELSE p_count
    /\ UNCHANGED <<p_fn, p_data, p_cs, p_faulty, p_off, p_buffer, p_failed, p_pc,
                   p_result>>
    /\ UNCHANGED not_stream_vars

\* process_stream: rayon::scope returns once its tasks have run; result
StreamReturn ==
    /\ p_fn = "process_stream"
    /\ p_pc = "wait"
    /\ scope_joined(p_tasks)
    /\ p_result' = [tag |-> IF p_failed THEN "Err" ELSE "Ok", count |-> 0]
    /\ p_pc' = "done"
    /\ UNCHANGED <<p_fn, p_data, p_cs, p_faulty, p_off, p_buffer, p_tasks, p_sent,
                   p_count, p_failed>>
    /\ UNCHANGED not_stream_vars

\* process_chunks: for_each_with has returned; processed.load(Relaxed)
ChunksReturn ==
    /\ p_fn = "process_chunks"
    /\ p_pc = "wait"
    /\ scope_joined(p_tasks)
    /\ p_result' = [tag |-> "usize", count |-> p_count]
    /\ p_pc' = "done"
    /\ UNCHANGED <<p_fn, p_data, p_cs, p_faulty, p_off, p_buffer, p_tasks, p_sent,
                   p_count, p_failed>>
    /\ UNCHANGED not_stream_vars

NextStream ==
    \/ StreamRead
    \/ StreamReadEof
    \/ StreamReadErr
    \/ StreamSpawn
    \/ StreamReadOn
    \/ StreamTail
    \/ ChunksStart
    \/ \E i \in DOMAIN p_tasks : TaskRun(i)
    \/ StreamReturn
    \/ ChunksReturn

SpecStream == InitStream /\ [][NextStream]_vars

----------------------------------------------------------------------------
(* A producer and the receiver of its channel.  The parser thread of       *)
(* parser.rs and the send loops of the extractor own the sender of an       *)
(* unbounded std::sync::mpsc channel; a chunk task of xml_utils.rs sends on *)
(* the crossbeam channel its caller made, bounded or not.                   *)

ProducerKinds == {"parser", "chunk_task", "send_loop"}

\* A channel whose sends do not notice that the receiver is gone
send_fails_never(rx) == FALSE

\* send returns Err, at once, when the receiver has been dropped; a sender
\* blocked on a full channel is woken by the drop
send_fails(rx) == rx = "dropped"

\* Room for one more message
has_room(cap, queued) == cap = 0 \/ queued < cap

\* What the producer does when send returns Err: the parser thread breaks
\* out of its loop, the send loop returns Ok(()), the chunk task ignores the
\* error (let _ = s.send(r)) and goes on with its next record
after_failed_send(kind, pos, items) ==
    IF kind = "chunk_task" /\ pos + 1 < items THEN "running" ELSE "done"

InitCancel ==
    /\ ExtractIdle
    /\ ZipIdle
    /\ ScanIdle
    /\ GroupIdle
    /\ SinkIdle
    /\ LoadIdle
    /\ RunIdle
    /\ JoinIdle
    /\ StreamIdle
    /\ c_kind \in ProducerKinds
    /\ c_items \in 1..MaxCancelItems
    /\ c_cap \in (IF c_kind = "chunk_task" THEN 0..MaxCancelCap ELSE {0})
    /\ c_pos = 0
    /\ c_chan = 0
    /\ c_rx = "open"
    /\ c_pc = "running"
    /\ c_failed = 0
    /\ c_got = 0

\* sender.send(record) returns Ok: the record is queued
SendOk ==
    /\ c_pc = "running"
    /\ c_pos < c_items
    /\ ~send_fails(c_rx)
    /\ has_room(c_cap, c_chan)
    /\ c_chan' = c_chan + 1
    /\ c_pos' = c_pos + 1
    /\ c_pc' = IF c_pos + 1 < c_items THEN "running" ELSE "done"
    /\ UNCHANGED <<c_kind, c_items, c_cap, c_rx, c_failed, c_got>>
    /\ UNCHANGED not_cancel_vars

\* sender.send(record) returns Err: the receiver is gone
SendErr ==
    /\ c_pc = "running"
    /\ c_pos < c_items
    /\ send_fails(c_rx)
    /\ c_failed' = c_failed + 1
    /\ c_pos' = c_pos + 1
    /\ c_pc' = after_failed_send(c_kind, c_pos, c_items)
    /\ UNCHANGED <<c_kind, c_items, c_cap, c_chan, c_rx, c_got>>
    /\ UNCHANGED not_cancel_vars

\* The consumer takes a record
ConsumerRecv ==
    /\ c_rx = "open"
    /\ c_chan > 0
    /\ c_chan' = c_chan - 1
    /\ c_got' = c_got + 1
    /\ UNCHANGED <<c_kind, c_items, c_cap, c_pos, c_rx, c_pc, c_failed>>
    /\ UNCHANGED not_cancel_vars

\* The consumer drops the receiver; the queued records go with it
ConsumerDrops ==
    /\ c_rx = "open"
    /\ c_rx' = "dropped"
    /\ c_chan' = 0
    /\ UNCHANGED <<c_kind, c_items, c_cap, c_pos, c_pc, c_failed, c_got>>
    /\ UNCHANGED not_cancel_vars

NextCancel ==
    \/ SendOk
    \/ SendErr
    \/ ConsumerRecv
    \/ ConsumerDrops

SpecCancel == InitCancel /\ [][NextCancel]_vars

\* The producer is a thread or a pool task of its own: it is scheduled
FairSpecCancel == SpecCancel /\ WF_vars(SendOk) /\ WF_vars(SendErr)

----------------------------------------------------------------------------
(* The readers of a zip input: extract_xml_from_zip and process_zip_stream *)
(* of xml_utils.rs, and start_streaming_parser of main.rs.  A member name   *)
(* is a sequence of pieces: the text "export.xml", a "/", or another        *)
(* character "x".                                                           *)

NamePieces == {"export.xml", "/", "x"}

MemberNames == UNION { [1..n -> NamePieces] : n \in 1..MaxNameLen }

MemberContents == { <<"<", "R", "/", ">">>, <<"<", "b", "/", ">">> }

ZipReaders == {"extract_xml_from_zip", "process_zip_stream", "start_streaming_parser"}

\* name.ends_with("export.xml")
ends_with_export_xml(name) == name[Len(name)] = "export.xml"

\* file.name() == "export.xml" || file.name().ends_with("/export.xml")
is_export_xml_member(name) ==
    \/ name = <<"export.xml">>
    \/ Len(name) >= 2 /\ name[Len(name)] = "export.xml" /\ name[Len(name) - 1] = "/"

\* The members a reader may pick.  archive.file_names().find(..) takes the
\* first name, in the iteration order of the archive's name table, that
\* ends with export.xml: any such member; the by_index loop of main.rs takes
\* the lowest index whose name is export.xml or ends with /export.xml.
export_candidates(reader, members) ==
    IF reader = "start_streaming_parser"
    THEN LET hits == { i \in DOMAIN members : is_export_xml_member(members[i].name) }
         IN  { i \in hits : \A j \in hits : i <= j }
    ELSE { i \in DOMAIN members : ends_with_export_xml(members[i].name) }

InitZip ==
    /\ ExtractIdle
    /\ ScanIdle
    /\ GroupIdle
    /\ SinkIdle
    /\ LoadIdle
    /\ RunIdle
    /\ JoinIdle
    /\ StreamIdle
    /\ CancelIdle
    /\ z_reader \in ZipReaders
    /\ \E n \in 1..MaxMembers :
           /\ z_members \in [1..n -> [name : MemberNames, content : MemberContents]]
           /\ \A i, j \in 1..n : i # j => z_members[i].name # z_members[j].name
    /\ z_found = 0
    /\ z_stream = <<>>
    /\ z_sent = <<>>
    /\ z_pc = "find"
    /\ z_result = "none"

\* The search finds a member
ZipFind ==
    /\ z_pc = "find"
    /\ \E i \in export_candidates(z_reader, z_members) : z_found' = i
    /\ z_pc' = "read"
    /\ UNCHANGED <<z_reader, z_members, z_stream, z_sent, z_result>>
    /\ UNCHANGED not_zip_vars

\* The search finds none: Err(ParseError("Could not find export.xml ..")),
\* Err(Unknown("export.xml not found in ZIP archive"))
ZipNotFound ==
    /\ z_pc = "find"
    /\ export_candidates(z_reader, z_members) = {}
    /\ z_result' = "Err"
    /\ z_pc' = "done"
    /\ UNCHANGED <<z_reader, z_members, z_found, z_stream, z_sent>>
    /\ UNCHANGED not_zip_vars

\* read_to_end of the member / process_stream reading the member to its end
ZipRead ==
    /\ z_pc = "read"
    /\ z_stream' = z_members[z_found].content
    /\ z_pc' = "parse"
    /\ UNCHANGED <<z_reader, z_members, z_found, z_sent, z_result>>
    /\ UNCHANGED not_zip_vars

\* The bytes are parsed and the records sent
ZipParse ==
    /\ z_pc = "parse"
    /\ z_sent' = process_chunk_slice(z_stream)
    /\ z_result' = "Ok"
    /\ z_pc' = "done"
    /\ UNCHANGED <<z_reader, z_members, z_found, z_stream>>
    /\ UNCHANGED not_zip_vars

NextZip ==
    \/ ZipFind
    \/ ZipNotFound
    \/ ZipRead
    \/ ZipParse

SpecZip == InitZip /\ [][NextZip]_vars

----------------------------------------------------------------------------
(* AppleHealthExtractor::extract step by step: process_memory_chunks and    *)
(* process_xml_file_streaming of extractor.rs.  The pool parses the chunks  *)
(* in any order; collect() of an indexed parallel iterator lays the results *)
(* out by chunk index; the sends follow the collection.                     *)

ExtractInputs ==
    { Flatten(ps) : ps \in UNION { [1..n -> Pieces] : n \in 0..MaxExtractPieces } }

\* The (start, end) pairs of boundaries.windows(2)
window_pairs(bs) == [ i \in 1..windows_count(bs) |-> <<bs[i], bs[i + 1]>> ]

\* The chunks of the input: cut in memory for a zip, by the streaming
\* scanner for a plain file
extract_chunks(path, content, cs) ==
    IF path = "zip"
    THEN window_pairs(AppleHealthExtractor_find_chunk_boundaries(content, cs))
    ELSE find_streaming_chunk_boundaries(content, cs)

\* A collection that keeps the order in which the pool finished the chunks
collect_as_completed(n, order) == order

\* par_iter().enumerate().map(..).collect::<Vec<_>>(): item i of the vector
\* is the result of chunk i, whatever the order of completion
collect(n, order) == [ i \in 1..n |-> i ]

\* The records of chunk i, each with its chunk and its place in the chunk
records_of_chunk(results, i) ==
    [ k \in 1..Len(results[i]) |-> [chunk |-> i, k |-> k, record |-> results[i][k]] ]

\* for (_, chunk_results) in chunk_metrics_and_results { for record_row in
\* chunk_results { .. } }: the records in the order the loops visit them
RECURSIVE send_order(_, _)
send_order(results, vec) ==
    IF vec = <<>>
    THEN <<>>
    ELSE records_of_chunk(results, Head(vec)) \o send_order(results, Tail(vec))

InitExtract ==
    /\ ScanIdle
    /\ GroupIdle
    /\ SinkIdle
    /\ LoadIdle
    /\ RunIdle
    /\ JoinIdle
    /\ StreamIdle
    /\ CancelIdle
    /\ ZipIdle
    /\ x_path \in {"zip", "plain"}
    /\ x_data \in ExtractInputs
    /\ x_cs \in 1..MaxExtractChunk
    /\ x_chunks = <<>>
    /\ x_results = <<>>
    /\ x_order = <<>>
    /\ x_queue = <<>>
    /\ x_sent = <<>>
    /\ x_rx = "open"
    /\ x_pc = "start"

\* find_chunk_boundaries and the chunks of windows(2), or
\* find_streaming_chunk_boundaries
ExtractCuts ==
    /\ x_pc = "start"
    /\ x_chunks' = extract_chunks(x_path, x_data, x_cs)
    /\ x_results' = [ i \in DOMAIN x_chunks' |-> <<>> ]
    /\ x_pc' = "parsing"
    /\ UNCHANGED <<x_path, x_data, x_cs, x_order, x_queue, x_sent, x_rx>>
    /\ UNCHANGED not_extract_vars

\* The closure of map on chunk i, on some thread of the pool:
\* process_chunk(chunk).unwrap_or_default()
ExtractChunkParsed(i) ==
    /\ x_pc = "parsing"
    /\ i \in DOMAIN x_chunks
    /\ \A j \in DOMAIN x_order : x_order[j] # i
    /\ x_results' = [x_results EXCEPT ![i] =
           AppleHealthExtractor_process_chunk(Slice(x_data, x_chunks[i][1], x_chunks[i][2]))]
    /\ x_order' = Append(x_order, i)
    /\ UNCHANGED <<x_path, x_data, x_cs, x_chunks, x_queue, x_sent, x_rx, x_pc>>
    /\ UNCHANGED not_extract_vars

\* collect() returns once every chunk is parsed
ExtractCollect ==
    /\ x_pc = "parsing"
    /\ Len(x_order) = Len(x_chunks)
    /\ x_queue' = send_order(x_results, collect(Len(x_chunks), x_order))
    /\ x_pc' = "sending"
    /\ UNCHANGED <<x_path, x_data, x_cs, x_chunks, x_results, x_order, x_sent, x_rx>>
    /\ UNCHANGED not_extract_vars

\* sender.send(record_row) returns Ok
ExtractSend ==
    /\ x_pc = "sending"
    /\ x_queue # <<>>
    /\ x_rx = "open"
    /\ x_sent' = Append(x_sent, Head(x_queue))
    /\ x_queue' = Tail(x_queue)
    /\ UNCHANGED <<x_path, x_data, x_cs, x_chunks, x_results, x_order, x_rx, x_pc>>
    /\ UNCHANGED not_extract_vars

\* sender.send(record_row).is_err(): return Ok(()); or the loops are over
ExtractReturn ==
    /\ x_pc = "sending"
    /\ x_queue = <<>> \/ x_rx = "dropped"
    /\ x_pc' = "returned"
    /\ UNCHANGED <<x_path, x_data, x_cs, x_chunks, x_results, x_order, x_queue, x_sent,
                   x_rx>>
    /\ UNCHANGED not_extract_vars

\* The grouping stage drops the receiver
ExtractReceiverDrops ==
    /\ x_pc \in {"start", "parsing", "sending"}
    /\ x_rx = "open"
    /\ x_rx' = "dropped"
    /\ UNCHANGED <<x_path, x_data, x_cs, x_chunks, x_results, x_order, x_queue, x_sent,
                   x_pc>>
    /\ UNCHANGED not_extract_vars

NextExtract ==
    \/ ExtractCuts
    \/ \E i \in DOMAIN x_chunks : ExtractChunkParsed(i)
    \/ ExtractCollect
    \/ ExtractSend
    \/ ExtractReturn
    \/ ExtractReceiverDrops

SpecExtract == InitExtract /\ [][NextExtract]_vars

----------------------------------------------------------------------------
(* Properties of the boundary scanner and the chunk parser *)

Range(s) == { s[i] : i \in DOMAIN s }

\* The multiset of the elements of a sequence
BagOf(s) == [ x \in Range(s) |-> Cardinality({ i \in DOMAIN s : s[i] = x }) ]

\* Byte p of d is '<' and byte p + 1 is alphabetic
ElementStartAt(d, p) ==
    /\ p >= 0
    /\ p + 1 < Len(d)
    /\ At(d, p) = "<"
    /\ At(d, p + 1) \in {"R", "b"}

\* Position p comes after a '>' at or after position from, with nothing but
\* whitespace in between
FollowsCloseFrom(d, from, p) ==
    \E j \in from..(p - 1) :
        /\ At(d, j) = ">"
        /\ \A k \in (j + 1)..(p - 1) : At(d, k) = " "

StrictlyIncreasing(bs) == \A i \in 1..(Len(bs) - 1) : bs[i] < bs[i + 1]

BoundaryListOf(d, bs, cs) ==
    /\ Len(bs) >= 1
    /\ bs[1] = 0
    /\ bs[Len(bs)] = Len(d)
    /\ StrictlyIncreasing(bs)
    /\ \A i \in 2..(Len(bs) - 1) :
           ElementStartAt(d, bs[i]) /\ FollowsCloseFrom(d, 0, bs[i])
    /\ \A i \in 1..(Len(bs) - 1) :
           LET target == Min(bs[i] + cs, Len(d))
           IN  (~ \E p \in 0..(Len(d) - 1) :
                      ElementStartAt(d, p) /\ FollowsCloseFrom(d, target, p))
               => bs[i + 1] = Len(d)

\* How one pass of the tokenizer over d ends: "ok" at the end of the input
\* with every element closed, "open" with an element left open, "err" at a
\* tokenizer error
RECURSIVE TokenizerEnd(_, _, _)
TokenizerEnd(d, pos, opened) ==
    LET ev == read_event_into(d, pos, opened)
    IN  IF ev.kind = "Err" THEN "err"
        ELSE IF ev.kind = "Eof" THEN (IF opened = <<>> THEN "ok" ELSE "open")
        ELSE TokenizerEnd(d, ev.next, ev.opened)

WellFormed(d) == TokenizerEnd(d, 0, <<>>) = "ok"

\* C1 (as claimed, on well-formed inputs, where one pass meets no tokenizer
\* error): the records process_chunks sends, chunk by chunk, are the same
\* multiset as the records of one pass over the whole input.
C1_BoundarySafety ==
    (called = "process_chunks" /\ WellFormed(data))
        => BagOf(sent) = BagOf(process_chunk_slice(data))

C3_EmptyGivesZeroZero ==
    /\ (called = "find_chunk_boundaries" /\ Len(data) = 0) => boundaries = <<0, 0>>
    /\ (called = "ah_find_chunk_boundaries" /\ Len(data) = 0)
           => ah_boundaries = <<0, 0>>

\* C3 (amended): an empty input gives the one-element boundary list [0],
\* which cuts no chunk.
C3_EmptyGivesZero ==
    /\ (called = "find_chunk_boundaries" /\ Len(data) = 0)
           => (boundaries = <<0>> /\ windows_count(boundaries) = 0)
    /\ (called = "ah_find_chunk_boundaries" /\ Len(data) = 0)
           => (ah_boundaries = <<0>> /\ windows_count(ah_boundaries) = 0)

C3_Witness == called = "find_chunk_boundaries" /\ Len(data) = 0

\* C4: a non-empty input no longer than the target chunk size gives the
\* boundary list [0, length].
C4_SmallInputOneChunk ==
    /\ (called = "find_chunk_boundaries" /\ Len(data) > 0 /\ Len(data) <= chunk_size)
           => boundaries = <<0, Len(data)>>
    /\ (called = "ah_find_chunk_boundaries" /\ Len(data) > 0 /\ Len(data) <= chunk_size)
           => ah_boundaries = <<0, Len(data)>>

\* A small input that does hold a safe split position
C4_Witness ==
    /\ called = "find_chunk_boundaries"
    /\ Len(data) > 0
    /\ Len(data) <= chunk_size
    /\ \E p \in 1..(Len(data) - 1) : ElementStartAt(data, p) /\ FollowsCloseFrom(data, 0, p)

\* C5 (as claimed, on well-formed inputs): every chunk end of the streaming
\* scanner other than the end of the file is the start of an element.
C5_StreamingEndsOnElementStart ==
    (called = "find_streaming_chunk_boundaries" /\ WellFormed(data))
        => \A i \in 1..Len(stream_boundaries) :
               stream_boundaries[i][2] # Len(data)
                   => ElementStartAt(data, stream_boundaries[i][2])

\* C33: the pairs returned by find_streaming_chunk_boundaries are a
\* contiguous partition of the file: the first start is 0, each start is
\* the end before it, every pair has start < end (every round of the loop
\* moves on), the last end is the file size, and an empty file has no pair.
C33_StreamingPartition ==
    called = "find_streaming_chunk_boundaries" =>
        LET bs == stream_boundaries
        IN  /\ Len(data) = 0 <=> bs = <<>>
            /\ bs # <<>> => bs[1][1] = 0 /\ bs[Len(bs)][2] = Len(data)
            /\ \A i \in 1..Len(bs) : bs[i][1] < bs[i][2]
            /\ \A i \in 2..Len(bs) : bs[i][1] = bs[i - 1][2]

\* A file cut into three or more chunks, one of them ending where the
\* buffer ended because no boundary was found in it
C33_Witness ==
    /\ called = "find_streaming_chunk_boundaries"
    /\ Len(stream_boundaries) >= 3
    /\ \E i \in 1..(Len(stream_boundaries) - 1) :
           ~ElementStartAt(data, stream_boundaries[i][2])

----------------------------------------------------------------------------
(* Properties of the grouping stage *)

Occurrences(s, x) == Cardinality({ i \in DOMAIN s : s[i] = x })

\* The ids of the records whose insert has completed
Inserted ==
    { i \in DOMAIN g_records :
          \E w \in Workers : i \in Range(g_got[w]) /\ g_holding[w].id # i }

\* Per-key counts of a single pass over the records
ReferenceCounts ==
    [ k \in { grouping_key(g_records[i]) : i \in DOMAIN g_records } |->
          Cardinality({ i \in DOMAIN g_records : grouping_key(g_records[i]) = k }) ]

\* C6: once the stage has returned (with at least one worker), every record
\* sent was received by exactly one worker and is exactly once in the map,
\* under its grouping key; the per-key counts are those of a single pass.
C6_Completeness ==
    (g_returned /\ g_workers >= 1) =>
        /\ \A i \in DOMAIN g_records :
               /\ Cardinality({ w \in Workers : i \in Range(g_got[w]) }) = 1
               /\ \A w \in Workers : Occurrences(g_got[w], i) <= 1
               /\ grouping_key(g_records[i]) \in DOMAIN g_map
               /\ \A k \in DOMAIN g_map :
                      Occurrences(g_map[k], g_records[i])
                          = IF k = grouping_key(g_records[i]) THEN 1 ELSE 0
        /\ [ k \in DOMAIN g_map |-> Len(g_map[k]) ] = ReferenceCounts

\* Both workers received records and some group holds two of them
C6_Witness ==
    /\ g_returned
    /\ g_workers = 2
    /\ \A w \in Workers : g_got[w] # <<>>
    /\ \E k \in DOMAIN g_map : Len(g_map[k]) >= 2

\* C7: the keys of the map are exactly the grouping keys of the records
\* inserted, no key maps to an empty sequence, and each group holds every
\* record inserted under its key (none lost to a concurrent first insert).
C7_KeysExactNoEmptyGroup ==
    /\ DOMAIN g_map = { grouping_key(g_records[i]) : i \in Inserted }
    /\ \A k \in DOMAIN g_map :
           /\ g_map[k] # <<>>
           /\ Len(g_map[k])
                  = Cardinality({ i \in Inserted : grouping_key(g_records[i]) = k })
    /\ g_returned /\ g_workers >= 1 => Inserted = DOMAIN g_records

\* Two workers held the first two records of a new key at the same time: the
\* record sent second was inserted first
C7_Witness ==
    /\ g_returned
    /\ \E k \in DOMAIN g_map :
           /\ Len(g_map[k]) = 2
           /\ g_map[k][1].id > g_map[k][2].id

----------------------------------------------------------------------------
(* Properties of the per-group ordering *)

\* The place of record id in the rows
RowOf(id) == CHOOSE p \in DOMAIN s_rows : s_rows[p].id = id

\* C8: the rows of a serialized group are in non-decreasing order of sort
\* key (a missing key counting as the empty string), one row per record.
C8_RowsSortedByKey ==
    s_done =>
        /\ Len(s_rows) = Len(s_recs)
        /\ \A p \in 1..(Len(s_rows) - 1) :
               unwrap_or_default(s_rows[p].key) <= unwrap_or_default(s_rows[p + 1].key)

\* Two records with distinct keys stored in reverse order
C8_Witness ==
    /\ s_done
    /\ s_sink = "zip"
    /\ Len(s_recs) = 2
    /\ s_recs[1].key = 2
    /\ s_recs[2].key = 1
    /\ s_rows[1].key = 1

\* C9 (as claimed): records of a group with equal sort keys are serialized
\* in the relative order in which they were stored.
C9_SortIsStable ==
    s_done =>
        \A i, j \in DOMAIN s_recs :
            (i < j /\ s_recs[i].key = s_recs[j].key)
                => RowOf(s_recs[i].id) < RowOf(s_recs[j].id)

\* C10 (as claimed): a record without a sort key precedes every record with
\* a non-empty key, and keeps its stored order relative to a record whose
\* key is the empty string.
C10_NoneSortsAsEmpty ==
    s_done =>
        \A i, j \in DOMAIN s_recs :
            /\ (s_recs[i].key = NoneKey /\ s_recs[j].key >= 1)
                   => RowOf(s_recs[i].id) < RowOf(s_recs[j].id)
            /\ (i < j /\ {s_recs[i].key, s_recs[j].key} = {NoneKey, 0})
                   => RowOf(s_recs[i].id) < RowOf(s_recs[j].id)

\* C38: a group of the zip sink in which no record has a sort key is
\* serialized in the order in which its records were stored: the rows are
\* the stored records, one after the other, and the cells are theirs.
C38_NoKeysKeepStoredOrder ==
    (s_done /\ s_sink = "zip" /\ \A i \in DOMAIN s_recs : sort_key(s_recs[i]) = NoneKey) =>
        /\ s_rows = s_recs
        /\ s_cells = write_rows(s_recs, headers_of(s_recs))

\* Three records without a sort key, the first and the last with different
\* fields, were serialized by the zip sink
C38_Witness ==
    /\ s_done
    /\ s_sink = "zip"
    /\ Len(s_recs) = 3
    /\ \A i \in DOMAIN s_recs : sort_key(s_recs[i]) = NoneKey
    /\ s_recs[1].fields # s_recs[3].fields
    /\ s_rows[3] = s_recs[3]

\* The place of a field name in the sorted order of the names
FieldRank(f) == CHOOSE i \in DOMAIN FieldNames : FieldNames[i] = f

\* C11: the header row holds exactly the union of the field names of the
\* group's records, each once, in sorted order, and the row of a record has
\* an empty cell exactly in the columns of the fields it lacks.
C11_HeaderUnion ==
    s_done =>
        /\ Range(s_header) = UNION { s_recs[i].fields : i \in DOMAIN s_recs }
        /\ \A i \in 1..(Len(s_header) - 1) :
               FieldRank(s_header[i]) < FieldRank(s_header[i + 1])
        /\ \A p \in DOMAIN s_cells :
               /\ Len(s_cells[p]) = Len(s_header)
               /\ \A j \in DOMAIN s_header :
                      s_cells[p][j] =
                          IF s_header[j] \in s_rows[p].fields
                          THEN <<s_rows[p].id, s_header[j]>>
                          ELSE EmptyCell

\* A record with the fields {a, b} and one with {b, c}: the header is
\* a, b, c and both rows have an empty cell
C11_Witness ==
    /\ s_done
    /\ Len(s_recs) = 2
    /\ s_recs[1].fields = {"a", "b"}
    /\ s_recs[2].fields = {"b", "c"}
    /\ s_header = <<"a", "b", "c">>
    /\ \A p \in DOMAIN s_cells : \E j \in DOMAIN s_header : s_cells[p][j] = EmptyCell

\* C12: the table has one data row per record of the group: every record
\* is written exactly once, none dropped and none duplicated.
C12_OneRowPerRecord ==
    s_done =>
        /\ Len(s_cells) = Len(s_recs)
        /\ Len(s_rows) = Len(s_recs)
        /\ \A i \in DOMAIN s_recs :
               Cardinality({ p \in DOMAIN s_rows : s_rows[p] = s_recs[i] }) = 1

\* Three records that the sort reorders
C12_Witness ==
    /\ s_done
    /\ s_sink = "zip"
    /\ Len(s_recs) = 3
    /\ s_rows # s_recs
    /\ Len(s_cells) = 3

----------------------------------------------------------------------------
(* Properties of the extraction channel *)

\* A worker has seen the end of the stream
SawEndOfStream(w) == g_pc[w] = "done"

\* C25: a worker observes end-of-stream only when every record has been
\* sent, the sender has been dropped and nothing is left in the channel, so
\* that every record sent was received by some worker before; and the
\* grouping stage eventually returns.
C25_ClosingProtocol ==
    /\ [](\A w \in Workers :
              SawEndOfStream(w) =>
                  /\ ~g_open
                  /\ g_chan = <<>>
                  /\ \A i \in DOMAIN g_records : \E v \in Workers : i \in Range(g_got[v]))
    /\ <>g_returned

\* Two workers have seen the end of the stream after the records were
\* received, and the stage has returned
C25_Witness ==
    /\ g_returned
    /\ g_workers = 2
    /\ Len(g_records) >= 2
    /\ \A w \in Workers : SawEndOfStream(w)
    /\ ~g_open

\* C31: the unwrap of the shared map never fails; once the stage has
\* returned, every worker has ended and holds no record, the map has one
\* owner and never changes again; and the load starts only after the stage
\* has returned.
C31_OwnershipTransfer ==
    /\ [](g_handoff # "panic")
    /\ [](g_returned =>
              /\ \A w \in Workers : g_pc[w] = "done" /\ g_holding[w] = NoRecord
              /\ 1 + Cardinality({ w \in Workers : g_pc[w] # "done" }) = 1)
    /\ [](g_handoff = "load" => g_returned)
    /\ [][g_returned => g_map' = g_map]_vars

\* transform has handed a map filled by two workers to the load phase
C31_Witness ==
    /\ g_impl = "transform"
    /\ g_workers = 2
    /\ g_handoff = "load"
    /\ \A w \in Workers : g_got[w] # <<>>
    /\ g_map # <<>>

\* C36: a stage started with zero workers receives nothing and its map
\* stays empty, whatever is sent; it can return at once, and once it has
\* returned the load phase can start.
C36_ZeroWorkers ==
    g_workers = 0 =>
        /\ g_map = <<>>
        /\ Len(g_chan) = g_next - 1
        /\ g_returned \/ ENABLED JoinAll
        /\ g_handoff \in {"none", "map", "load"}
        /\ g_returned => (g_handoff = "load" \/ ENABLED StartLoad)

\* With zero workers the load has started although records were sent
C36_Witness ==
    /\ g_workers = 0
    /\ g_handoff = "load"
    /\ g_chan # <<>>
    /\ g_map = <<>>


\* C17 (as claimed): the extraction channel has a fixed capacity, so the
\* records queued between the producer and the grouping stage never exceed
\* it and a send on a full channel waits for a receive.  A capacity that
\* does not grow with the input is smaller than some input: the queue never
\* holds every record of an input of two or more records.
C17_Backpressure ==
    Len(g_records) >= 2 => Len(g_chan) < Len(g_records)

----------------------------------------------------------------------------
(* Properties of the extractor's two input paths *)

\* C16 (as claimed, on well-formed inputs): the records the extractor sends
\* for a plain file are the same multiset as the records it sends for the
\* same bytes wrapped in a zip, so that grouping and serialization produce
\* the same entries with the same rows.
C16_ContainerEquivalence ==
    (called = "extract_plain" /\ WellFormed(data))
        => BagOf(sent) = BagOf(extract_zip(data, chunk_size))

\* The chunks the operation that was called has parsed
ChunksParsed ==
    CASE called = "process_chunks" ->
             [ i \in 1..windows_count(boundaries) |->
                   Slice(data, boundaries[i], boundaries[i + 1]) ]
      [] called = "extract_zip" ->
             [ i \in 1..windows_count(ah_boundaries) |->
                   Slice(data, ah_boundaries[i], ah_boundaries[i + 1]) ]
      [] called = "extract_plain" ->
             [ i \in 1..Len(stream_boundaries) |->
                   Slice(data, stream_boundaries[i][1], stream_boundaries[i][2]) ]
      [] OTHER -> <<>>

\* The position of the first tokenizer error of a chunk, its length if the
\* tokenizer reaches the end
RECURSIVE ErrorPos(_, _, _)
ErrorPos(chunk, pos, opened) ==
    LET ev == read_event_into(chunk, pos, opened)
    IN  IF ev.kind = "Err" THEN pos
        ELSE IF ev.kind = "Eof" THEN Len(chunk)
        ELSE ErrorPos(chunk, ev.next, ev.opened)

\* The target elements whose tag begins at byte i of the chunk (none or one),
\* read off the bytes
TargetAt(chunk, i) ==
    LET gt == find_byte(chunk, ">", i + 1)
        content == Slice(chunk, i + 1, gt)
    IN  IF At(chunk, i) # "<" \/ gt = NoneIdx \/ content = <<>> THEN <<>>
        ELSE IF Head(content) = "/" \/ tag_name(content) \notin TARGET_ELEMENTS THEN <<>>
        ELSE IF Last(content) = "/" THEN <<Front(content)>>
        ELSE <<content>>

\* The target elements whose tag begins at a byte in i..(p - 1), in order
RECURSIVE TargetsBefore(_, _, _)
TargetsBefore(chunk, i, p) ==
    IF i < p THEN TargetAt(chunk, i) \o TargetsBefore(chunk, i + 1, p) ELSE <<>>

\* What a chunk contributes: the targets before its first tokenizer error
KeptOf(chunk) == TargetsBefore(chunk, 0, ErrorPos(chunk, 0, <<>>))

RECURSIVE KeptOfAll(_)
KeptOfAll(chunks) ==
    IF chunks = <<>> THEN <<>> ELSE KeptOf(Head(chunks)) \o KeptOfAll(Tail(chunks))

\* C20: whether or not the tokenizer meets an error in a chunk, the chunk
\* contributes exactly the target elements that begin before the error
\* position (all of them when there is no error), and the records sent are
\* those of all the chunks together: an error costs only the rest of its
\* own chunk.
C20_ErrorTruncatesChunk ==
    called \in {"process_chunks", "extract_zip", "extract_plain"}
        => BagOf(sent) = BagOf(KeptOfAll(ChunksParsed))

\* Two chunks parsed; one has a record before a tokenizer error and a target
\* element after it, the other has a record of its own
C20_Witness ==
    /\ called = "process_chunks"
    /\ \E i, j \in DOMAIN ChunksParsed :
           /\ i # j
           /\ ErrorPos(ChunksParsed[i], 0, <<>>) < Len(ChunksParsed[i])
           /\ KeptOf(ChunksParsed[i]) # <<>>
           /\ Len(TargetsBefore(ChunksParsed[i], 0, Len(ChunksParsed[i])))
                  > Len(KeptOf(ChunksParsed[i]))
           /\ KeptOf(ChunksParsed[j]) # <<>>
    /\ Len(sent) >= 2

----------------------------------------------------------------------------
(* Properties of the load phase *)

NonEmptyKeys == { k \in DOMAIN l_map : l_map[k] > 0 }

\* The load has returned success
LoadOk == l_done /\ l_result = "Ok"

\* C13 (as claimed): no entry of the container is made from an empty group,
\* and once the load has returned success every key with records has its
\* entry in the container.
C13_EmptyGroupExclusion ==
    /\ \A i \in DOMAIN l_out : l_out[i].recs # {} /\ l_out[i].key \in NonEmptyKeys
    /\ LoadOk => \A k \in NonEmptyKeys : \E i \in DOMAIN l_out : l_out[i].key = k

\* C14 (as claimed): after a successful load the container holds one entry per key with records,
\* named by the sanitized key plus ".csv", holding the records of that key
\* and of no other.
C14_OneEntryPerKey ==
    LoadOk =>
        /\ Len(l_out) = Cardinality(NonEmptyKeys)
        /\ \A k \in NonEmptyKeys :
               \E i \in DOMAIN l_out :
                   /\ l_out[i].name = csv_name(sanitize_filename(k))
                   /\ l_out[i].recs = RecordsOf(l_map, k)
                   /\ \A j \in DOMAIN l_out : l_out[j].name = l_out[i].name => j = i

\* C15 (as claimed): the sinks append the entries of the container in the
\* lexicographic order of their group keys.
C15_EntriesInKeyOrder ==
    l_path \in {"zip", "7z"} =>
        \A i, j \in DOMAIN l_out : i < j => KeyLess(l_out[i].key, l_out[j].key)

\* C23: for the sinks, a load that returned success has a container that
\* the merge thread finished and that holds an entry for every group with
\* records; and when the serialization of any group failed, or a closure of
\* the workers returned an error for any other reason, the load returned
\* an error.
C23_SuccessMeansComplete ==
    l_path \in {"zip", "7z"} =>
        /\ LoadOk => /\ l_finished
                     /\ l_merger = "finished"
                     /\ \A k \in NonEmptyKeys : \E i \in DOMAIN l_out : l_out[i].key = k
        /\ (l_done /\ l_werr) => l_result = "Err"

\* A serialization failed after another group was merged: the load has
\* returned an error and the container on disk lacks a group
C23_Witness ==
    /\ l_done
    /\ l_fault = "serialize"
    /\ l_werr
    /\ l_result = "Err"
    /\ Len(l_out) = 1
    /\ Cardinality(NonEmptyKeys) = 2

\* C24: when the merge thread has failed (creating the container, merging an
\* entry or finishing), a load that has returned has returned an error,
\* whether a worker saw the closed channel or everything was queued before.
C24_MergerFailureIsError ==
    (l_path \in {"zip", "7z"} /\ l_done /\ l_merger = "failed") => l_result = "Err"

\* Every entry was queued before the container could not be created: no
\* send failed, and the error came from the join
C24_Witness ==
    /\ l_done
    /\ l_fault = "create"
    /\ l_merger = "failed"
    /\ ~l_werr
    /\ l_taken = DOMAIN l_entries
    /\ Len(l_entries) = 2
    /\ l_result = "Err"

\* C27: the entries queued between the workers and the merge thread never
\* exceed max(4, 2 x pool threads) for the zip sink and 1 for the 7z sink.
C27_MergeChannelBounded ==
    /\ l_path = "zip" => Len(l_chan) <= (IF 2 * l_threads > 4 THEN 2 * l_threads ELSE 4)
    /\ l_path = "7z" => Len(l_chan) <= 1

\* The channel of the zip sink is full and a worker holds a finished entry
\* it cannot send until the merge thread takes one
C27_Witness ==
    /\ l_path = "zip"
    /\ Len(l_chan) = 4
    /\ \E t \in RayonWorkers : l_hold[t] # 0
    /\ l_merger = "running"

\* C28: no thread but the merge thread has used the handle of the output
\* container of a sink.
C28_SingleWriter ==
    l_path \in {"zip", "7z"} => l_users \subseteq {MergeThread}

\* Two workers have serialized and sent, the merge thread has created the
\* container, appended both entries and finished it
C28_Witness ==
    /\ LoadOk
    /\ l_path = "zip"
    /\ l_threads = 2
    /\ Len(l_out) = 2
    /\ l_users = {MergeThread}

\* C34: load returns a result, and the merge thread of a sink ends, in
\* every interleaving and whatever fails: no worker stays blocked in send
\* and the merge thread does not wait for ever on its channel.
C34_LoadTerminates ==
    /\ <>l_done
    /\ <>(l_path = "main" \/ l_merger \in {"finished", "failed"})
    /\ [](l_done => \A t \in RayonWorkers : l_hold[t] = 0)

\* The merge thread has failed at a write while a worker holds an entry it
\* has still to send and the load has not returned
C34_Witness ==
    /\ l_fault = "write"
    /\ l_merger = "failed"
    /\ \E t \in RayonWorkers : l_hold[t] # 0
    /\ ~l_done

----------------------------------------------------------------------------
(* Properties of the chunk tasks *)

StreamReturned == p_pc = "done"

\* The records of the chunks of all the tasks
RECURSIVE RecordsOfTasks(_)
RecordsOfTasks(tasks) ==
    IF tasks = <<>> THEN <<>>
    ELSE process_chunk_slice(Head(tasks).chunk) \o RecordsOfTasks(Tail(tasks))

\* C21: a read error makes process_stream return Err and nothing else does;
\* it returns only when every task spawned before the error has run, and
\* the records of all those tasks have been sent.
C21_ErrorAfterTasksFinish ==
    (p_fn = "process_stream" /\ StreamReturned) =>
        /\ p_result.tag = (IF p_failed THEN "Err" ELSE "Ok")
        /\ \A i \in DOMAIN p_tasks : p_tasks[i].runs >= 1
        /\ BagOf(p_sent) = BagOf(RecordsOfTasks(p_tasks))

\* A read failed while a task with a record was still to run: the task ran
\* after the error, its record was sent, and process_stream returned Err
C21_Witness ==
    /\ p_fn = "process_stream"
    /\ StreamReturned
    /\ p_result.tag = "Err"
    /\ \E i \in DOMAIN p_tasks :
           p_tasks[i].late /\ process_chunk_slice(p_tasks[i].chunk) # <<>>
    /\ p_sent # <<>>

\* The bytes of the chunks of the tasks, in spawn order
RECURSIVE BytesOfTasks(_)
BytesOfTasks(tasks) ==
    IF tasks = <<>> THEN <<>> ELSE Head(tasks).chunk \o BytesOfTasks(Tail(tasks))

\* C30: no chunk is ever parsed twice; when the function has returned every
\* chunk has been parsed once; the chunks of process_chunks are the windows
\* of the boundaries and the count returned is their number, the boundary
\* count minus one; the chunks of process_stream are consecutive pieces of
\* the bytes read.
C30_OneTaskPerChunk ==
    /\ \A i \in DOMAIN p_tasks : p_tasks[i].runs <= 1
    /\ StreamReturned => \A i \in DOMAIN p_tasks : p_tasks[i].runs = 1
    /\ (p_fn = "process_chunks" /\ StreamReturned) =>
           /\ p_result.count = Len(find_chunk_boundaries(p_data, p_cs)) - 1
           /\ Len(p_tasks) = p_result.count
           /\ BytesOfTasks(p_tasks) = p_data
    /\ p_fn = "process_stream" =>
           BytesOfTasks(p_tasks) \o p_buffer = Slice(p_data, 0, p_off)

\* process_chunks has returned 2 for three boundaries, both chunks parsed
C30_Witness ==
    /\ p_fn = "process_chunks"
    /\ StreamReturned
    /\ p_result.count = 2
    /\ Len(find_chunk_boundaries(p_data, p_cs)) = 3
    /\ \A i \in DOMAIN p_tasks : p_tasks[i].runs = 1

\* The chunks cut so far and the buffer are the bytes read, and at the
\* return of a run without read error the chunks are the whole source
ChunksAreTheBytesRead ==
    p_fn = "process_stream" =>
        /\ BytesOfTasks(p_tasks) \o p_buffer = Slice(p_data, 0, p_off)
        /\ (StreamReturned /\ ~p_failed) => BytesOfTasks(p_tasks) = p_data

\* Every chunk but the last is strictly longer than CHUNK_SIZE
AllButLastAreLong ==
    p_fn = "process_stream" =>
        \A i \in 1..(Len(p_tasks) - 1) : Len(p_tasks[i].chunk) > p_cs

\* What is left to do: the bytes to read, the bytes to cut, the position of
\* the calling thread and the tasks still to run
StreamVariant ==
    4 * (Len(p_data) - p_off) + 2 * Len(p_buffer)
    + (CASE p_pc = "drain" -> 4 [] p_pc = "read" -> 3 [] p_pc = "tail" -> 2
         [] p_pc = "wait" -> 1 [] OTHER -> 0)
    + Cardinality({ i \in DOMAIN p_tasks : p_tasks[i].runs = 0 })

\* Every step of process_stream brings it nearer to its return, and on a
\* source that reads without error a step can be taken until it has returned
StreamTerminates ==
    /\ [](p_fn = "process_stream" => StreamVariant >= 0)
    /\ []((p_fn = "process_stream" /\ ~p_faulty /\ ~StreamReturned) => ENABLED NextStream)
    /\ [][p_fn = "process_stream" => StreamVariant' < StreamVariant]_vars

\* C32 (as claimed): in process_stream the chunks, in the order they were
\* cut, are exactly the bytes read; every chunk except the last starts at
\* an element start and is strictly longer than CHUNK_SIZE; and the
\* cutting loop terminates.
C32_ChunksPartitionAsClaimed ==
    /\ []ChunksAreTheBytesRead
    /\ []AllButLastAreLong
    /\ [](p_fn = "process_stream" =>
              \A i \in 1..(Len(p_tasks) - 1) : ElementStartAt(p_tasks[i].chunk, 0))
    /\ StreamTerminates

\* C32 (amended): the chunks, in the order they were cut, are exactly the
\* bytes read; every chunk except the first starts at an element start
\* (the first starts where the source starts), every chunk except the last
\* is strictly longer than CHUNK_SIZE; and the cutting loop terminates.
C32_ChunksPartitionInput ==
    /\ []ChunksAreTheBytesRead
    /\ []AllButLastAreLong
    /\ [](p_fn = "process_stream" =>
              \A i \in 2..Len(p_tasks) : ElementStartAt(p_tasks[i].chunk, 0))
    /\ StreamTerminates

\* process_stream has returned Ok after cutting a source that starts with
\* whitespace into two chunks
C32_Witness ==
    /\ p_fn = "process_stream"
    /\ StreamReturned
    /\ p_result.tag = "Ok"
    /\ Len(p_tasks) = 2
    /\ p_data[1] = " "

----------------------------------------------------------------------------
(* Properties of cancellation *)

\* C26: once the receiver has been dropped nothing is queued any more, every
\* send the producer still makes fails, and the producer finishes: it exits
\* at the first failed send (parser thread, send loop) or goes through its
\* remaining records (chunk task).
C26_CancellationEndsProducers ==
    /\ [](c_rx = "dropped" => c_chan = 0)
    /\ [][c_rx = "dropped" => c_chan' = c_chan /\ c_got' = c_got]_vars
    /\ [][(c_rx = "dropped" /\ c_pos' # c_pos) =>
            /\ c_failed' = c_failed + 1
            /\ (c_kind # "chunk_task" => c_pc' = "done")]_vars
    /\ (c_rx = "dropped") ~> (c_pc = "done")

\* The receiver was dropped while the producer had records left; the
\* producer got an error from send and has finished
C26_Witness ==
    /\ c_rx = "dropped"
    /\ c_pc = "done"
    /\ c_failed >= 1
    /\ c_got + c_failed < c_items \/ c_kind = "chunk_task"

----------------------------------------------------------------------------
(* Properties of the zip readers *)

\* The members whose name ends in export.xml
ExportMembers ==
    { i \in DOMAIN z_members : z_members[i].name[Len(z_members[i].name)] = "export.xml" }

\* C29: with no member whose name ends in export.xml no record is ever sent
\* and the reader returns an error; with such a member the reader succeeds
\* and the bytes parsed are the contents of such a member.
C29_ExportMemberIsParsed ==
    /\ ExportMembers = {} => z_sent = <<>>
    /\ z_pc = "done" =>
           IF ExportMembers = {}
           THEN z_result = "Err"
           ELSE /\ z_result = "Ok"
                /\ \E i \in ExportMembers : z_stream = z_members[i].content

----------------------------------------------------------------------------
(* Properties of the join of the grouping workers *)

\* C22: once the driver has returned, it has returned success only if no
\* worker thread has panicked; and when every worker ended because the
\* channel closed, the grouping stage has returned success.
C22_PanicIsFatal ==
    j_run # "none" =>
        /\ (\E w \in JoinWorkers : j_state[w] = "panicked") => j_run \in {"Err", "panic"}
        /\ (\A w \in JoinWorkers : j_state[w] = "done") => j_stage = "Ok"

\* The first worker ended gracefully, a later one panicked, and the driver
\* of main.rs has returned the error
C22_Witness ==
    /\ j_impl = "main"
    /\ Len(j_state) >= 2
    /\ j_state[1] = "done"
    /\ j_state[2] = "panicked"
    /\ j_run = "Err"

\* C35: run of main.rs always returns: the parser thread ends and its
\* sender is dropped, with or without an error; process_records_streaming
\* returns Ok only when the channel is closed and every worker has seen it
\* and ended; and run returns Ok only if the parser returned Ok.
C35_JoinOrderIsSafe ==
    /\ [](j_impl = "main" =>
              /\ j_stage = "Ok" =>
                     j_closed /\ \A w \in JoinWorkers : j_state[w] = "done"
              /\ j_run = "Ok" => j_parser = "Ok"
              /\ (j_run # "none" /\ j_stage = "Ok" /\ j_parser = "Err") => j_run = "Err")
    /\ <>(j_impl = "main" => j_run # "none")

\* The parser ended with an error, three workers saw the closed channel
\* and ended, and run returned the error
C35_Witness ==
    /\ j_impl = "main"
    /\ Len(j_state) = 3
    /\ \A w \in JoinWorkers : j_state[w] = "done"
    /\ j_parser = "Err"
    /\ j_stage = "Ok"
    /\ j_run = "Err"

----------------------------------------------------------------------------
(* Properties of the extractor's sends *)

\* a is b with some of its items left out
RECURSIVE IsSubsequence(_, _)
IsSubsequence(a, b) ==
    IF a = <<>> THEN TRUE
    ELSE IF b = <<>> THEN FALSE
    ELSE IF Head(a) = Head(b) THEN IsSubsequence(Tail(a), Tail(b))
    ELSE IsSubsequence(a, Tail(b))

ExtractedRecords == [ n \in DOMAIN x_sent |-> x_sent[n].record ]

\* The records of the chunks, chunk after chunk
RecordsInChunkOrder ==
    IF x_path = "zip"
    THEN process_memory_chunks(x_data, AppleHealthExtractor_find_chunk_boundaries(x_data, x_cs), 1)
    ELSE process_xml_file_streaming(x_data, find_streaming_chunk_boundaries(x_data, x_cs), 1)

\* C37: nothing is sent while a chunk is still to be parsed; the records are
\* sent by increasing chunk index and, inside a chunk, in the order the
\* chunk's parser produced them; what has been sent is the beginning of the
\* chunks' records taken chunk after chunk, all of them once extract has
\* returned with the receiver alive; and for a well-formed document it
\* follows the order of the records in the document.
C37_SendsInSourceOrder ==
    /\ x_sent # <<>> => Len(x_order) = Len(x_chunks)
    /\ \A a, b \in DOMAIN x_sent :
           a < b => \/ x_sent[a].chunk < x_sent[b].chunk
                    \/ x_sent[a].chunk = x_sent[b].chunk /\ x_sent[a].k < x_sent[b].k
    /\ x_pc \in {"sending", "returned"} =>
           /\ Len(ExtractedRecords) <= Len(RecordsInChunkOrder)
           /\ ExtractedRecords = SubSeq(RecordsInChunkOrder, 1, Len(ExtractedRecords))
    /\ (x_pc = "returned" /\ x_rx = "open") => ExtractedRecords = RecordsInChunkOrder
    /\ (x_pc \in {"sending", "returned"} /\ WellFormed(x_data)) =>
           IsSubsequence(ExtractedRecords, process_chunk_slice(x_data))

\* The pool finished a later chunk before an earlier one, both had records,
\* and all of them were sent
C37_Witness ==
    /\ x_pc = "returned"
    /\ x_rx = "open"
    /\ \E a, b \in DOMAIN x_order :
           /\ a < b
           /\ x_order[a] > x_order[b]
           /\ x_results[x_order[a]] # <<>>
           /\ x_results[x_order[b]] # <<>>
           /\ x_results[x_order[a]] # x_results[x_order[b]]
    /\ Len(x_sent) >= 2

----------------------------------------------------------------------------
(* Properties of a whole run *)

RunReturned == r_pc \in {"done", "failed"}

\* The elements of the input that can be decoded, in document order
Decodable == SelectSeq([ i \in 1..Len(r_elems) |-> i ], LAMBDA i : r_elems[i] = "good")

\* C18 (as claimed): when the input cannot be opened or read, or the zip has
\* no export.xml member, the load phase is never started, no output
\* container is created, and the run returns an error to its caller.
C18_InputErrorsFatal ==
    r_input # "ok" =>
        /\ ~r_load_started
        /\ ~r_container
        /\ RunReturned => r_result = "Err"

\* C19 (as claimed): on a readable input, elements that cannot be decoded
\* are skipped one by one: when the run has returned it has not failed, and
\* every element that can be decoded has been emitted as a record.
C19_DecodeErrorSkipsElement ==
    (r_input = "ok" /\ RunReturned) =>
        /\ r_result = "Ok"
        /\ r_emitted = Decodable

====
